---- MODULE Spec2Model ----
(***************************************************************************)
(* Grid search of jaro-z/lead-scraper: runSearchAsync (server), runSearch  *)
(* and searchPlaces (google-places.js) over the SQLite tables of db.js.    *)
(*                                                                         *)
(* Node runs one callback at a time, so every action below is the code     *)
(* that runs between two awaits: it starts where a promise settles and     *)
(* ends where the next external call or timer is awaited.                  *)
(***************************************************************************)
EXTENDS Integers, Sequences, FiniteSets, TLC

\* ---------------------------------------------------------------- bounds
MaxRuns == 2          \* searches started (search ids 1..MaxRuns)
NumPlaces == 1        \* distinct place ids the external API knows
MaxPageLen == 2       \* places carried by one response page
API_LIMIT == 3        \* monthly ceiling handed to runSearch as `limit`
Precision == 4        \* bits of a Number's significand

Runs == 1..MaxRuns
PlaceIds == 1..NumPlaces

\* a place as the search API returns it: its id and a descriptive field
PlacesNamed(names) == [id : PlaceIds, displayName : names]

Places == PlacesNamed({"n1"})
GridChoices == {"small"}

\* ------------------------------------------------------------- constants
MaxPages == 3

GRID_SIZES == [small |-> 2, medium |-> 3, large |-> 5]

\* `GRID_SIZES[gridSize] || GRID_SIZES.medium`
gridNumOf(gridSize) ==
  IF gridSize \in DOMAIN GRID_SIZES THEN GRID_SIZES[gridSize] ELSE GRID_SIZES.medium

\* ----------------------------------------------- floating-point numbers
\* Coordinates are JavaScript Numbers: every +, -, * and / of generateGrid
\* is rounded to the nearest number with a significand of Precision bits,
\* ties to even.  A number is written here as a whole count of units of
\* 2^-UnitBits degrees; no result of generateGrid on the coordinates below
\* is finer than one unit, so the count is exact.
abs(x) == IF x < 0 THEN -x ELSE x

max(x, y) == IF x >= y THEN x ELSE y

UnitBits == Precision + 5

\* a / b (a >= 0, b > 0) rounded to the nearest integer, ties to even
roundQuotient(a, b) ==
  LET q == a \div b
      r == a % b
  IN IF 2 * r > b \/ (2 * r = b /\ q % 2 = 1) THEN q + 1 ELSE q

\* the exponent of a / b: the least e >= 0 with a / b < 2^(Precision + e)
RECURSIVE exponentOf(_, _, _)
exponentOf(a, b, e) ==
  IF a < b * 2^(Precision + e) THEN e ELSE exponentOf(a, b, e + 1)

\* the Number nearest to the exact quotient a / b (b > 0)
fl(a, b) ==
  LET e == exponentOf(abs(a), b, 0)
      m == roundQuotient(abs(a), b * 2^e)
  IN IF a < 0 THEN -(m * 2^e) ELSE m * 2^e

\* the cell pushed for (i, j) with the two indexes taken for each other
gridCellTransposed(bounds, gridSize, i, j) ==
  LET latStep == fl(fl(bounds.north - bounds.south, 1), gridSize)
      lngStep == fl(fl(bounds.east - bounds.west, 1), gridSize)
  IN [south |-> fl(bounds.south + fl(j * latStep, 1), 1),
      north |-> fl(bounds.south + fl((j + 1) * latStep, 1), 1),
      west |-> fl(bounds.west + fl(i * lngStep, 1), 1),
      east |-> fl(bounds.west + fl((i + 1) * lngStep, 1), 1)]

\* one cell of the grid: the object pushed for (i, j)
gridCell(bounds, gridSize, i, j) ==
  LET latStep == fl(fl(bounds.north - bounds.south, 1), gridSize)
      lngStep == fl(fl(bounds.east - bounds.west, 1), gridSize)
  IN [south |-> fl(bounds.south + fl(i * latStep, 1), 1),
      north |-> fl(bounds.south + fl((i + 1) * latStep, 1), 1),
      west |-> fl(bounds.west + fl(j * lngStep, 1), 1),
      east |-> fl(bounds.west + fl((j + 1) * lngStep, 1), 1)]

\* the two nested loops of generateGrid, i outer and j inner, each pushing
\* one cell; neither loop runs when gridSize <= 0
RECURSIVE gridLoop(_, _, _, _, _)
gridLoop(cells, bounds, gridSize, i, j) ==
  IF i >= gridSize THEN cells
  ELSE IF j >= gridSize THEN gridLoop(cells, bounds, gridSize, i + 1, 0)
  ELSE gridLoop(Append(cells, gridCell(bounds, gridSize, i, j)), bounds, gridSize, i, j + 1)

generateGrid(bounds, gridSize) == gridLoop(<<>>, bounds, gridSize, 0, 0)

\* a viewport as geocodeLocation returns it, in units
geocodedBounds ==
  [south |-> 2^UnitBits, north |-> 2 * 2^UnitBits, west |-> 2^UnitBits, east |-> 2 * 2^UnitBits]

\* ------------------------------------------------------------ data model
\* every response page the external search API may answer with
RECURSIVE SeqsUpTo(_, _)
SeqsUpTo(S, n) ==
  IF n = 0 THEN {<<>>}
  ELSE LET shorter == SeqsUpTo(S, n - 1)
       IN shorter \cup {Append(q, x) : q \in {t \in shorter : Len(t) = n - 1}, x \in S}

Pages == SeqsUpTo(Places, MaxPageLen)

transformPlace(place) == [place_id |-> place.id, name |-> place.displayName]

VARIABLES
  request_count,     \* api_usage.request_count of the current month
  companies,         \* companies table: row id = position, in insert order
  search_companies,  \* junction table: set of <<search_id, company_id>>
  searches,          \* searches table: id -> [status, result_count]
  run,               \* locals of each runSearch / searchPlaces invocation
  batch,             \* the discoverContactsBatch invocation (contactWaterfall)
  dedupe,            \* the checkDuplicate invocation (notion.js)
  fuzzy,             \* the fuzzyMatch invocation (notion.js)
  enrich,            \* the POST /api/companies/:id/enrich-full handler
  qualify,           \* the POST /api/companies/:id/qualify handler
  helper,            \* one invocation of a synchronous helper function
  stream,            \* the GET /api/searches/:id/progress streams of one search
  validation,        \* the validateEmailsBatch invocation (validators.js)
  notionExport       \* the POST /api/notion/export handler

vars == <<request_count, companies, search_companies, searches, run,
          batch, dedupe, fuzzy, enrich, qualify, helper, stream, validation, notionExport>>

\* the tables as one value, so that synchronous code composes
Db == [request_count |-> request_count, companies |-> companies,
       search_companies |-> search_companies, searches |-> searches]

\* ------------------------------------------------------------------ db.js
getApiUsage(d) == d.request_count

incrementApiUsage(d, count) == [d EXCEPT !.request_count = @ + count]

getExistingPlaceIds(d) == {d.companies[k].place_id : k \in 1..Len(d.companies)}

createSearch(d, id) ==
  [d EXCEPT !.searches[id] = [status |-> "running", result_count |-> 0]]

\* resultCount = -1 stands for the default `null`: the count is left alone
updateSearchStatus(d, id, status, resultCount) ==
  IF resultCount # -1
  THEN [d EXCEPT !.searches[id] = [status |-> status, result_count |-> resultCount]]
  ELSE [d EXCEPT !.searches[id].status = status]

\* SELECT id FROM companies WHERE place_id = ?  (0: no row)
existingCompany(d, place_id) ==
  LET hits == {k \in 1..Len(d.companies) : d.companies[k].place_id = place_id}
  IN IF hits = {} THEN 0 ELSE CHOOSE k \in hits : \A h \in hits : k <= h

upsertCompanyAlwaysInsert(d, company, searchId) ==
  LET inserted == [d EXCEPT !.companies = Append(@, company)]
      companyId == Len(inserted.companies)
  IN [d |-> [inserted EXCEPT !.search_companies = @ \cup {<<searchId, companyId>>}],
      companyId |-> companyId, isNew |-> TRUE]

upsertCompany(d, company, searchId) ==
  LET existing == existingCompany(d, company.place_id)
      written == IF existing # 0
                 THEN [d EXCEPT !.companies[existing] = company]
                 ELSE [d EXCEPT !.companies = Append(@, company)]
      companyId == IF existing # 0 THEN existing ELSE Len(written.companies)
  IN [d |-> [written EXCEPT !.search_companies = @ \cup {<<searchId, companyId>>}],
      companyId |-> companyId, isNew |-> (existing = 0)]

\* ------------------------------------------------- google-places.js: pages
\* `if (existingPlaceIds.has(place.id)) continue;`
skipPlaceNever(existingPlaceIds, place) == FALSE

skipPlace(existingPlaceIds, place) == place.id \in existingPlaceIds

\* the `for (const place of data.places)` loop of searchPlaces: s is the
\* run's locals, of which it reads and writes existingPlaceIds and results
RECURSIVE collectPlaces(_, _)
collectPlaces(s, places) ==
  IF places = <<>> THEN s
  ELSE LET place == Head(places)
           seen == [s EXCEPT !.sighted = {x \in @ : x.place_id # place.id}
                                           \cup {transformPlace(place)}]
       IN IF skipPlace(s.existingPlaceIds, place)
          THEN collectPlaces(seen, Tail(places))
          ELSE collectPlaces([seen EXCEPT !.results = Append(@, transformPlace(place)),
                                          !.existingPlaceIds = @ \cup {place.id}],
                             Tail(places))

\* `while (pageToken && pageNum < 3)`
continuePagingNoCap(pageToken, pageNum) == pageToken

continuePaging(pageToken, pageNum) == pageToken /\ pageNum < MaxPages

\* ---------------------------------------------- google-places.js: the run
\* `if (currentUsage.request_count >= limit)`, also the check at entry
limitReachedOffByOne(count, limit) == count > limit

limitReached(count, limit) == count >= limit

nextCellSkips(i) == i + 2

nextCell(i) == i + 1

\* the `for (const place of places)` loop of runSearch
RECURSIVE persistPlaces(_, _, _, _)
persistPlaces(d, s, searchId, places) ==
  IF places = <<>> THEN [d |-> d, s |-> s]
  ELSE LET up == upsertCompany(d, Head(places), searchId)
       IN persistPlaces(up.d,
                        [s EXCEPT !.totalResults = @ + 1,
                                  !.newResults = IF up.isNew THEN @ + 1 ELSE @],
                        searchId, Tail(places))

\* `onProgress?.(event)`: runSearchAsync's callback is handed the event
onProgress(s, event) == [s EXCEPT !.emitted = Append(@, event)]

\* the first `fetch` of searchPlaces(query, cell, apiKey, existingPlaceIds):
\* results = [], pageToken = null, pageNum = 0, then the request is awaited
searchPlacesCall(d, s) ==
  [d |-> d,
   s |-> [s EXCEPT !.pc = "fetch", !.results = <<>>, !.pageToken = FALSE,
                   !.pageNum = 0, !.reqs = 1, !.seenAtCall = s.existingPlaceIds,
                   !.sighted = {},
                   !.cellOutcome = "pending", !.visited = Append(@, s.i)]]

\* runSearch is over: its locals and those of searchPlaces are out of scope
\* (what it returned or threw, and its history, remain)
endOfRun(s, outcome) ==
  [s EXCEPT !.pc = "done", !.outcome = outcome, !.i = 0, !.existingPlaceIds = {},
            !.results = <<>>, !.pageToken = FALSE, !.pageNum = 0,
            !.cellOutcome = "none", !.seenAtCall = {}, !.reqs = 0, !.sighted = {},
            !.emitted = Append(@, IF outcome = "returned"
                                  THEN [status |-> "completed",
                                        totalResults |-> s.totalResults,
                                        newResults |-> s.newResults]
                                  ELSE [status |-> "error"])]

\* `db.updateSearchStatus(searchId, 'completed', totalResults); return ...`
\* and runSearchAsync's `onProgress({status: 'completed', ...})`
runCompletedNoCount(d, s, searchId) ==
  [d |-> updateSearchStatus(d, searchId, "completed", -1),
   s |-> endOfRun(s, "returned")]

runCompleted(d, s, searchId) ==
  [d |-> updateSearchStatus(d, searchId, "completed", s.totalResults),
   s |-> endOfRun(s, "returned")]

\* runSearchAsync's `catch (error) { db.updateSearchStatus(searchId, 'error') }`
runFailedAsCompleted(d, s, searchId) ==
  [d |-> updateSearchStatus(d, searchId, "completed", -1),
   s |-> endOfRun(s, "threw")]

runFailed(d, s, searchId) ==
  [d |-> updateSearchStatus(d, searchId, "error", -1),
   s |-> endOfRun(s, "threw")]

\* head of `for (let i = 0; i < cells.length; i++)`: the bound test, the
\* pre-cell budget check with its `break`, then the call of searchPlaces
loopHead(d, s, searchId) ==
  IF s.i < s.totalCells
  THEN LET currentUsage == getApiUsage(d)
           read == [s EXCEPT !.lastRead = currentUsage, !.emitted = <<>>]
       IN IF limitReached(currentUsage, API_LIMIT)
          THEN runCompleted(d, onProgress([read EXCEPT !.budgetStop = "cell"],
                                          [status |-> "limit_reached", cells |-> s.i]),
                            searchId)
          ELSE searchPlacesCall(d, onProgress(read,
                                   [status |-> "searching", cell |-> s.i + 1,
                                    totalCells |-> s.totalCells]))
  ELSE runCompleted(d, s, searchId)

\* `catch (error) { console.error(...) }` around one cell, then the 100 ms
\* timer is awaited
cellFailedAborts(d, s, searchId) == runFailed(d, [s EXCEPT !.cellOutcome = "threw", !.failed = TRUE], searchId)

cellFailed(d, s, searchId) ==
  [d |-> d, s |-> [s EXCEPT !.pc = "cellDelay", !.cellOutcome = "threw", !.failed = TRUE]]

\* searchPlaces returned: the upserts, then the 100 ms timer is awaited
cellReturned(d, s, searchId) ==
  LET saved == persistPlaces(d, s, searchId, s.results)
      told == onProgress(saved.s, [status |-> "progress", cell |-> s.i + 1,
                                   totalCells |-> s.totalCells,
                                   totalResults |-> saved.s.totalResults,
                                   newResults |-> saved.s.newResults])
  IN [d |-> saved.d, s |-> [told EXCEPT !.pc = "cellDelay", !.cellOutcome = "returned"]]

\* bottom of the do-while once the page's 200 ms timer (if any) has elapsed
pageLoopBottom(d, s, searchId) ==
  IF continuePaging(s.pageToken, s.pageNum)
  THEN [d |-> d, s |-> [s EXCEPT !.pc = "fetch", !.reqs = @ + 1]]
  ELSE cellReturned(d, s, searchId)

\* ------------------------------------------------------------ the machine
\* no call of the contact waterfall, of checkDuplicate or of fuzzyMatch made
notCalled == [pc |-> "idle"]

idleRun ==
  [pc |-> "idle", totalCells |-> 0, i |-> 0, existingPlaceIds |-> {},
   results |-> <<>>, pageToken |-> FALSE, pageNum |-> 0,
   totalResults |-> 0, newResults |-> 0,
   \* history of the invocation, read by the properties only
   visited |-> <<>>,        \* cell indexes searchPlaces was called for, in order
   lastRead |-> -1,         \* request_count read by the latest pre-cell check
   budgetStop |-> "none",   \* which budget check ended the run: initial / cell
   gridSize |-> "none",     \* the gridSize runSearch was called with
   startedAlone |-> FALSE,  \* no other run was executing when this one started
   geo |-> "none",          \* how geocoding settled: ok / failed
   cellOutcome |-> "none",  \* latest searchPlaces call: pending / returned / threw
   seenAtCall |-> {},       \* existingPlaceIds when that call started
   sighted |-> {},          \* every place that call was answered with, as last seen
   emitted |-> <<>>,        \* the events onProgress was handed since the head of
                            \* the latest iteration of the cell loop
   reqs |-> 0,              \* page requests issued by that call
   failed |-> FALSE,        \* some cell of the run has thrown
   outcome |-> "none"]      \* how runSearch ended: returned / threw

Init ==
  /\ request_count = 0
  /\ companies = <<>>
  /\ search_companies = {}
  /\ searches = [r \in Runs |-> [status |-> "none", result_count |-> 0]]
  /\ run = [r \in Runs |-> idleRun]
  /\ batch = notCalled /\ dedupe = notCalled /\ fuzzy = notCalled
  /\ enrich = notCalled /\ qualify = notCalled /\ helper = notCalled
  /\ stream = notCalled /\ validation = notCalled /\ notionExport = notCalled

\* commit what a synchronous stretch of run r left behind
Commit(r, res) ==
  /\ request_count' = res.d.request_count
  /\ companies' = res.d.companies
  /\ search_companies' = res.d.search_companies
  /\ searches' = res.d.searches
  /\ run' = [run EXCEPT ![r] = res.s]
  /\ UNCHANGED <<batch, dedupe, fuzzy, enrich, qualify, helper, stream, validation, notionExport>>

\* db.createSearch, then runSearchAsync -> runSearch up to its first await
\* (the geocoding fetch).  Search ids are row ids, handed out in order.
\* runSearch is entered for whatever the usage counter is: the budget check
\* at its entry is its own, it does not rely on its caller having checked.
runSearchAsync(r, gridSize) ==
  /\ run[r].pc = "idle"
  /\ \A q \in Runs : q < r => run[q].pc # "idle"
  /\ LET d == createSearch(Db, r)
         gridNum == gridNumOf(gridSize)
         usage == getApiUsage(d)
         called == [run[r] EXCEPT !.gridSize = gridSize,
                                  !.startedAlone = \A q \in Runs \ {r} : run[q].pc \in {"idle", "done"}]
     IN Commit(r,
          IF limitReached(usage, API_LIMIT)
          THEN runFailed(d, [called EXCEPT !.budgetStop = "initial"], r)
          ELSE [d |-> d,
                s |-> [called EXCEPT !.pc = "geocoding",
                                     !.totalCells = Len(generateGrid(geocodedBounds, gridNum)),
                                     !.existingPlaceIds = getExistingPlaceIds(d)]])

\* geocodeLocation settles.  It throws when the fetch rejects, the body does
\* not parse or status is not OK / there are no results; otherwise it
\* returns the bounds, the call is metered, the grid is generated and the
\* loop runs up to the first page request (or ends the run).
geocodeLocation(r, ok) ==
  /\ run[r].pc = "geocoding"
  /\ Commit(r,
       IF ok
       THEN loopHead(incrementApiUsage(Db, 1),
                     [run[r] EXCEPT !.geo = "ok", !.i = 0,
                                    !.totalResults = 0, !.newResults = 0], r)
       ELSE runFailed(Db, [run[r] EXCEPT !.geo = "failed"], r))

\* a page request of searchPlaces settles:
\*   "reject": fetch itself throws, before the call is metered;
\*   "notok":  the call is metered, then !response.ok (or a body that does
\*             not parse) throws;
\*   "ok":     the call is metered and the page (places, nextPageToken) is
\*             merged; with a token the 200 ms timer is awaited.
fetchSettled(r, kind, places, nextPageToken) ==
  /\ run[r].pc = "fetch"
  /\ Commit(r,
       CASE kind = "reject" -> cellFailed(Db, run[r], r)
         [] kind = "notok" -> cellFailed(incrementApiUsage(Db, 1), run[r], r)
         [] kind = "ok" ->
              LET merged == collectPlaces(run[r], places)
                  paged == [merged EXCEPT !.pageToken = nextPageToken, !.pageNum = @ + 1]
              IN IF paged.pageToken
                 THEN [d |-> incrementApiUsage(Db, 1), s |-> [paged EXCEPT !.pc = "pageDelay"]]
                 ELSE pageLoopBottom(incrementApiUsage(Db, 1), paged, r))

\* the 200 ms timer between pages fires
pageDelayElapsed(r) ==
  /\ run[r].pc = "pageDelay"
  /\ Commit(r, pageLoopBottom(Db, run[r], r))

\* the 100 ms timer between cells fires: i++, then the loop head
cellDelayElapsed(r) ==
  /\ run[r].pc = "cellDelay"
  /\ Commit(r, loopHead(Db, [run[r] EXCEPT !.i = nextCell(@)], r))

Next ==
  \/ \E r \in Runs, gridSize \in GridChoices : runSearchAsync(r, gridSize)
  \/ \E r \in Runs, ok \in BOOLEAN : geocodeLocation(r, ok)
  \/ \E r \in Runs, kind \in {"reject", "notok"} : fetchSettled(r, kind, <<>>, FALSE)
  \/ \E r \in Runs, places \in Pages, tok \in BOOLEAN : fetchSettled(r, "ok", places, tok)
  \/ \E r \in Runs : pageDelayElapsed(r)
  \/ \E r \in Runs : cellDelayElapsed(r)

Spec == Init /\ [][Next]_vars

\* a promise or timer some run awaits has settled
Settle ==
  \/ \E r \in Runs, ok \in BOOLEAN : geocodeLocation(r, ok)
  \/ \E r \in Runs, kind \in {"reject", "notok"} : fetchSettled(r, kind, <<>>, FALSE)
  \/ \E r \in Runs, places \in Pages, tok \in BOOLEAN : fetchSettled(r, "ok", places, tok)
  \/ \E r \in Runs : pageDelayElapsed(r)
  \/ \E r \in Runs : cellDelayElapsed(r)

\* every external call and timer settles: while something is awaited, the
\* event loop eventually runs one of the pending continuations
FairSpec == Spec /\ WF_vars(Settle)

\* ------------------------------------------------------------ properties
placeIds(results) == {results[k].place_id : k \in 1..Len(results)}

\* the latest searchPlaces call of run r has returned (its results were
\* handed to runSearch, which now waits for the timer between cells)
Returned(r) == run[r].pc = "cellDelay" /\ run[r].cellOutcome = "returned"

\* that call threw instead
Threw(r) == run[r].pc = "cellDelay" /\ run[r].cellOutcome = "threw"

\* place p is stored and linked to search r
Persisted(r, p) ==
  \E cid \in 1..Len(companies) :
    companies[cid].place_id = p /\ <<r, cid>> \in search_companies

\* C1: a searchPlaces call returns no lead whose identifier was in the seen
\* set when it started, returns no identifier twice, and has put every
\* returned identifier into the seen set by the time it returns.
C1_CollectorDedups ==
  \A r \in Runs : Returned(r) =>
    /\ placeIds(run[r].results) \cap run[r].seenAtCall = {}
    /\ \A j, k \in 1..Len(run[r].results) :
         j # k => run[r].results[j].place_id # run[r].results[k].place_id
    /\ placeIds(run[r].results) \subseteq run[r].existingPlaceIds

\* a call went through all three pages and returned one lead
C1_Witness ==
  \E r \in Runs : Returned(r) /\ run[r].pageNum = MaxPages /\ Len(run[r].results) = 1

\* C2: a cell is collected only when the counter read just before it is
\* below the ceiling, and after a pre-cell read at or above the ceiling the
\* run searches no further cell.
C2_BudgetGate ==
  [][\A r \in Runs :
       /\ run'[r].visited # run[r].visited =>
            run'[r].lastRead >= 0 /\ run'[r].lastRead < API_LIMIT
       /\ (run[r].lastRead >= API_LIMIT \/ run'[r].lastRead >= API_LIMIT) =>
            run'[r].visited = run[r].visited /\ run'[r].pc = "done"]_vars

\* a run stopped by the pre-cell check after some, not all, cells
C2_Witness ==
  \E r \in Runs : /\ run[r].budgetStop = "cell"
                  /\ run[r].lastRead >= API_LIMIT
                  /\ Len(run[r].visited) >= 1
                  /\ Len(run[r].visited) < run[r].totalCells

\* C3: the companies table holds at most one row per place identifier,
\* whatever the interleaving of the runs.
C3_OneCompanyPerPlace ==
  \A j, k \in 1..Len(companies) :
    j # k => companies[j].place_id # companies[k].place_id

\* two runs in flight together have both persisted the same place
C3_Witness ==
  \E q, r \in Runs, cid \in 1..Len(companies) :
    /\ q # r
    /\ run[q].pc \notin {"idle", "done"} /\ run[r].pc \notin {"idle", "done"}
    /\ {<<q, cid>>, <<r, cid>>} \subseteq search_companies

\* C4: when a page fetch fails after earlier pages of the cell succeeded,
\* the leads of those pages are still yielded and persisted by the run.
C4_PartialCellKept ==
  \A r \in Runs : Threw(r) =>
    \A p \in placeIds(run[r].results) : Persisted(r, p)

\* C5: a cell that throws never aborts the run: the run goes on to the next
\* cell unless the budget check or the end of the grid stops it, and then it
\* ends completed.
C5_CellFailureContained ==
  /\ [](\A r \in Runs :
          /\ Threw(r) => searches[r].status = "running"
          /\ run[r].failed /\ run[r].pc = "done" =>
               searches[r].status = "completed" /\ run[r].outcome = "returned")
  /\ [][\A r \in Runs : Threw(r) /\ run'[r] # run[r] =>
          \/ /\ run'[r].pc = "fetch"
             /\ run'[r].visited = Append(run[r].visited, run[r].i + 1)
          \/ /\ run'[r].pc = "done"
             /\ searches'[r].status = "completed"
             /\ \/ run[r].i + 1 = run[r].totalCells
                \/ request_count >= API_LIMIT]_vars

\* a run that had a failing cell went on to visit every cell and completed
C5_Witness ==
  \E r \in Runs : /\ run[r].failed /\ run[r].pc = "done"
                  /\ Len(run[r].visited) = run[r].totalCells
                  /\ run[r].totalResults > 0
                  /\ searches[r].status = "completed"

\* C6: a run that finds the budget exhausted, at its entry check or at a
\* pre-cell check, ends completed with its tally and raises no error.
C6_BudgetStopIsNormal ==
  \A r \in Runs : run[r].budgetStop # "none" =>
    /\ run[r].outcome = "returned"
    /\ searches[r].status = "completed"
    /\ searches[r].result_count = run[r].totalResults

\* C7: a searchPlaces call issues at most 3 page requests, and each request
\* after the first follows a response that carried a continuation token.
C7_PageCap ==
  \A r \in Runs :
    /\ run[r].reqs <= MaxPages
    /\ run[r].pc = "fetch" /\ run[r].reqs >= 2 => run[r].pageToken

\* the API offered a token on the third page too, and the call returned
C7_Witness ==
  \E r \in Runs : Returned(r) /\ run[r].reqs = MaxPages
                  /\ run[r].pageNum = MaxPages /\ run[r].pageToken

\* C8: once geocoding has succeeded the run eventually is completed with
\* its final count recorded, and a run that has ended issues no further
\* search call.
C8_RunCompletes ==
  /\ \A r \in Runs :
       (run[r].geo = "ok") ~>
         (/\ run[r].pc = "done"
          /\ searches[r].status = "completed"
          /\ searches[r].result_count = run[r].totalResults)
  /\ [][\A r \in Runs : run[r].pc = "done" =>
          run'[r] = run[r] /\ searches'[r] = searches[r]]_vars

\* a run stopped early by the budget is completed with a non-zero count
C8_Witness ==
  \E r \in Runs : /\ run[r].geo = "ok" /\ run[r].pc = "done"
                  /\ run[r].budgetStop = "cell"
                  /\ searches[r].status = "completed"
                  /\ searches[r].result_count = run[r].totalResults
                  /\ run[r].totalResults > 0

\* C9: when geocoding fails no cell is searched, the run persists no lead,
\* and the search ends in 'error'.
C9_GeocodeFailureAborts ==
  \A r \in Runs : run[r].geo = "failed" =>
    /\ run[r].pc = "done"
    /\ run[r].visited = <<>>
    /\ \A cid \in 1..Len(companies) : <<r, cid>> \notin search_companies
    /\ searches[r].status = "error"

\* geocoding failed for a run started while the table already had leads
C9_Witness ==
  \E r \in Runs : run[r].geo = "failed" /\ run[r].pc = "done" /\ companies # <<>>

\* C10: cells are visited in index order 0, 1, ..., each at most once, a
\* cell starts only when no collection of the run is pending, and a run has
\* always visited a prefix of that order.
C10_CellsInOrder ==
  /\ [](\A r \in Runs :
          /\ run[r].visited = [k \in 1..Len(run[r].visited) |-> k - 1]
          /\ Len(run[r].visited) <= run[r].totalCells
          /\ run[r].pc \in {"fetch", "pageDelay"} =>
               /\ run[r].cellOutcome = "pending"
               /\ run[r].visited # <<>>
               /\ run[r].visited[Len(run[r].visited)] = run[r].i
          /\ run[r].pc = "done" /\ run[r].geo = "ok" /\ run[r].budgetStop = "none" =>
               Len(run[r].visited) = run[r].totalCells)
  /\ [][\A r \in Runs : run'[r].visited # run[r].visited =>
          /\ run[r].cellOutcome # "pending"
          /\ run'[r].visited = Append(run[r].visited, Len(run[r].visited))]_vars

\* a run that was not stopped has visited the whole grid
C10_Witness ==
  \E r \in Runs : /\ run[r].pc = "done" /\ run[r].budgetStop = "none"
                  /\ run[r].visited = <<0, 1, 2, 3>>

\* ======================================================================
\* Contact waterfall: discoverContacts / discoverContactsBatch
\* ======================================================================
MaxBatch == 2         \* subjects handed to one discoverContactsBatch call
MaxContacts == 2      \* contacts one source returns

gridVars == <<request_count, companies, search_companies, searches, run>>

\* ------------------------------------------------------ JavaScript values
\* the values a contact's property can hold; an absent property reads as
\* undefined.  Strings are sequences of characters.
null == [t |-> "null"]

undefined == [t |-> "undefined"]

String(s) == [t |-> "string", v |-> s]

Number(n) == [t |-> "number", v |-> n]

\* ToBoolean: '' and 0 are falsy like null and undefined
truthy(x) ==
  CASE x.t = "string" -> x.v # <<>>
    [] x.t = "number" -> x.v # 0
    [] OTHER -> FALSE

\* x || y
or(x, y) == IF truthy(x) THEN x ELSE y

RECURSIVE trimStart(_)
trimStart(str) == IF str # <<>> /\ Head(str) = " " THEN trimStart(Tail(str)) ELSE str

RECURSIVE trimEnd(_)
trimEnd(str) ==
  IF str # <<>> /\ str[Len(str)] = " " THEN trimEnd(SubSeq(str, 1, Len(str) - 1)) ELSE str

trim(str) == trimEnd(trimStart(str))

\* str.split(/\s+/): parts are the pieces cut so far, cur the piece being
\* read; every run of whitespace cuts once
RECURSIVE splitWhitespace(_, _, _)
splitWhitespace(str, parts, cur) ==
  IF str = <<>> THEN Append(parts, cur)
  ELSE IF Head(str) = " " THEN splitWhitespace(trimStart(str), Append(parts, cur), <<>>)
  ELSE splitWhitespace(Tail(str), parts, Append(cur, Head(str)))

\* parts.join(sep)
RECURSIVE join(_, _)
join(parts, sep) ==
  IF parts = <<>> THEN <<>>
  ELSE IF Len(parts) = 1 THEN parts[1]
  ELSE parts[1] \o sep \o join(Tail(parts), sep)

\* values.filter(Boolean)
RECURSIVE filterBoolean(_)
filterBoolean(values) ==
  IF values = <<>> THEN <<>>
  ELSE IF truthy(Head(values)) THEN <<Head(values)>> \o filterBoolean(Tail(values))
  ELSE filterBoolean(Tail(values))

extractFirstName(fullName) ==
  IF ~truthy(fullName) THEN null
  ELSE LET parts == splitWhitespace(trim(fullName.v), <<>>, <<>>)
       IN or(String(parts[1]), null)

\* the last name taken to be the last part only
extractLastNameLastPart(fullName) ==
  IF ~truthy(fullName) THEN null
  ELSE LET parts == splitWhitespace(trim(fullName.v), <<>>, <<>>)
       IN IF Len(parts) > 1 THEN String(parts[Len(parts)]) ELSE null



extractLastName(fullName) ==
  IF ~truthy(fullName) THEN null
  ELSE LET parts == splitWhitespace(trim(fullName.v), <<>>, <<>>)
       IN IF Len(parts) > 1 THEN String(join(Tail(parts), <<" ">>)) ELSE null

\* a raw contact with no property set
emptyContact ==
  [name |-> undefined, firstName |-> undefined, lastName |-> undefined,
   fullName |-> undefined, email |-> undefined, phone |-> undefined,
   role |-> undefined, title |-> undefined, position |-> undefined,
   confidence |-> undefined]

\* the callback normalizeContacts maps over the contacts
normalizeContact(contact, source) ==
  IF source = "web_scrape"
  THEN [name |-> or(contact.name, null),
        firstName |-> or(contact.firstName, extractFirstName(contact.name)),
        lastName |-> or(contact.lastName, extractLastName(contact.name)),
        email |-> or(contact.email, null),
        phone |-> or(contact.phone, null),
        title |-> or(or(contact.role, contact.title), null),
        source |-> "web_scrape",
        confidence |-> or(contact.confidence, Number(50))]
  ELSE IF source = "hunter"
  THEN [name |-> or(contact.fullName,
                    String(join([k \in 1..Len(filterBoolean(<<contact.firstName, contact.lastName>>)) |->
                                filterBoolean(<<contact.firstName, contact.lastName>>)[k].v], <<" ">>))),
        firstName |-> or(contact.firstName, null),
        lastName |-> or(contact.lastName, null),
        email |-> or(contact.email, null),
        phone |-> null,
        title |-> or(or(contact.title, contact.position), null),
        source |-> "hunter",
        confidence |-> or(contact.confidence, Number(0))]
  ELSE contact

\* a domain string, as the pieces the cleaning regexes tell apart; <<>> is
\* the empty string (falsy)
DomainInputs == {<<>>, <<"a.cz">>, <<"https://", "www.", "a.cz", "/">>, <<"www.", "a.cz">>}

CompanyIds == 1..MaxBatch

Subjects == [id : CompanyIds, domain : DomainInputs]

RawContacts == {[emptyContact EXCEPT !.email = String(<<"e", "1">>)]}

ContactLists == SeqsUpTo(RawContacts, MaxContacts)

\* `.replace(/^https?:\/\//, '').replace(/^www\./, '').replace(/\/$/, '')`
cleanDomainOf(domain) ==
  LET noProto == IF domain # <<>> /\ Head(domain) \in {"http://", "https://"}
                 THEN Tail(domain) ELSE domain
      noWww == IF noProto # <<>> /\ Head(noProto) = "www." THEN Tail(noProto) ELSE noProto
  IN IF noWww # <<>> /\ noWww[Len(noWww)] = "/"
     THEN SubSeq(noWww, 1, Len(noWww) - 1) ELSE noWww

\* normalizeContacts(contacts, source): every contact mapped to the common
\* shape, tagged with its source
normalizeContacts(contacts, source) ==
  [k \in 1..Len(contacts) |-> normalizeContact(contacts[k], source)]

\* `return { source: null, contacts: [], companyId }`
noContactsResult(companyId) ==
  [source |-> "null", contacts |-> <<>>, companyId |-> companyId]

\* `if (scrapedContacts && scrapedContacts.length > 0)`; "null" is a scraper
\* that resolved with no array
scrapeFoundNever(scrapedContacts) == FALSE

scrapeFound(scrapedContacts) == scrapedContacts # "null" /\ Len(scrapedContacts) > 0

\* `if (hunterApiKey)`
useHunter(hunterApiKey) == hunterApiKey

\* `i++` of the batch loop
nextSubject(i) == i + 1

\* a discoverContactsBatch call that has not entered its loop yet
batchCalled(subjects, hunterApiKey, delayMs) ==
  [pc |-> "loop", companies |-> subjects, hunterApiKey |-> hunterApiKey,
   delayMs |-> delayMs, i |-> 0, results |-> <<>>, cleanDomain |-> <<>>,
   \* history of the call, read by the properties only
   started |-> <<>>,      \* subject indexes discoverContacts was called for
   inFlight |-> {},       \* subject indexes whose discovery has not settled
   trace |-> [k \in 0..(Len(subjects) - 1) |-> [scrape |-> "notcalled", hunter |-> "notcalled", result |-> [source |-> "none"]]],
                          \* per subject: how each source settled, what discoverContacts returned
   calls |-> <<>>,        \* source calls in the order made: <<source, index>>
   rejected |-> FALSE]    \* the batch promise rejected

\* results.set(company.id, result): the Map as a sequence of <<key, value>>
\* in insertion order, a set key keeping its place
mapSet(m, key, value) ==
  IF \E k \in 1..Len(m) : m[k][1] = key
  THEN [k \in 1..Len(m) |-> IF m[k][1] = key THEN <<key, value>> ELSE m[k]]
  ELSE Append(m, <<key, value>>)

Range(q) == {q[k] : k \in 1..Len(q)}

mapHas(m, key) == \E k \in 1..Len(m) : m[k][1] = key

mapGet(m, key) == m[CHOOSE k \in 1..Len(m) : m[k][1] = key][2]

RECURSIVE batchLoop(_), discoverContacts(_), discoverySettled(_, _), awaitSource(_, _)

\* `await` of a source call made by discoverContacts: the batch is suspended
\* until the call settles
awaitSourceNot(b, source) ==
  IF b.i + 1 < Len(b.companies)
  THEN discoverContacts([b EXCEPT !.pc = source, !.i = nextSubject(@)])
  ELSE [b EXCEPT !.pc = source]

awaitSource(b, source) == [b EXCEPT !.pc = source]

\* an exception leaves discoverContacts: nothing in the batch loop catches it
discoveryRejected(b) == [b EXCEPT !.pc = "done", !.rejected = TRUE]

\* `return { source: null, contacts: [], error: 'No domain provided' }`
noDomainThrows(b) == discoveryRejected(b)

noDomain(b) ==
  discoverySettled(b, [source |-> "null", contacts |-> <<>>, error |-> "No domain provided"])

\* discoverContacts(company.id, company.domain, hunterApiKey) up to its
\* first await (the scraper), or to its return when there is no domain
discoverContacts(b) ==
  LET company == b.companies[b.i + 1]
      entered == [b EXCEPT !.started = Append(@, b.i), !.inFlight = @ \cup {b.i}]
  IN IF company.domain = <<>>
     THEN noDomain(entered)
     ELSE awaitSource([entered EXCEPT !.cleanDomain = cleanDomainOf(company.domain),
                                      !.trace[b.i].scrape = "pending",
                                      !.calls = Append(@, <<"web_scrape", b.i>>)],
                      "scrape")

\* the awaited discoverContacts resolved: results.set, then the delay
\* between subjects or the next turn of the loop
discoverySettled(b, result) ==
  LET stored == [b EXCEPT !.results = mapSet(@, b.companies[b.i + 1].id, result),
                          !.inFlight = @ \ {b.i}, !.trace[b.i].result = result]
  IN IF b.i < Len(b.companies) - 1 /\ b.delayMs > 0
     THEN [stored EXCEPT !.pc = "delay"]
     ELSE batchLoop([stored EXCEPT !.i = nextSubject(@)])

\* `for (let i = 0; i < companies.length; i++)`, `return results`
batchLoop(b) ==
  IF b.i < Len(b.companies) THEN discoverContacts(b) ELSE [b EXCEPT !.pc = "done"]

\* Step 2 of discoverContacts: the paid fallback, or the empty result
hunterStep(b) ==
  IF useHunter(b.hunterApiKey)
  THEN awaitSource([b EXCEPT !.trace[b.i].hunter = "pending",
                             !.calls = Append(@, <<"hunter", b.i>>)], "hunter")
  ELSE discoverySettled(b, noContactsResult(b.companies[b.i + 1].id))

\* `catch (error) { console.warn('Web scraping failed ...') }`
scrapeThrewPropagates(b) == discoveryRejected(b)

scrapeThrew(b) == hunterStep(b)

\* `catch (error) { console.warn('Hunter.io failed ...') }`
hunterThrewPropagates(b) == discoveryRejected(b)

hunterThrew(b) == discoverySettled(b, noContactsResult(b.companies[b.i + 1].id))

\* -------------------------------------------------- the waterfall machine
\* discoverContactsBatch(companies, hunterApiKey, {delayMs}) is called
discoverContactsBatch(subjects, hunterApiKey, delayMs) ==
  /\ batch.pc = "idle"
  /\ batch' = batchLoop(batchCalled(subjects, hunterApiKey, delayMs))
  /\ UNCHANGED <<gridVars, dedupe, fuzzy, enrich, qualify, helper, stream, validation, notionExport>>

\* webScraper.scrapeTeamPages settles: it throws, resolves with no array,
\* or resolves with a (possibly empty) array of contacts
scrapeSettled(kind, contacts) ==
  /\ batch.pc = "scrape"
  /\ LET i == batch.i
         companyId == batch.companies[i + 1].id
     IN batch' =
          CASE kind = "throw" -> scrapeThrew([batch EXCEPT !.trace[i].scrape = "threw"])
            [] kind = "null" -> hunterStep([batch EXCEPT !.trace[i].scrape = "empty"])
            [] kind = "list" ->
                 IF scrapeFound(contacts)
                 THEN discoverySettled([batch EXCEPT !.trace[i].scrape = "found"],
                        [source |-> "web_scrape",
                         contacts |-> normalizeContacts(contacts, "web_scrape"),
                         companyId |-> companyId])
                 ELSE hunterStep([batch EXCEPT !.trace[i].scrape =
                                    IF contacts = <<>> THEN "empty" ELSE "found"])
  /\ UNCHANGED <<gridVars, dedupe, fuzzy, enrich, qualify, helper, stream, validation, notionExport>>

\* hunter.domainSearch settles: it throws, or resolves with its emails
\* (`hunterResult.emails || []`)
hunterSettled(kind, emails) ==
  /\ batch.pc = "hunter"
  /\ LET i == batch.i
         companyId == batch.companies[i + 1].id
     IN batch' =
          CASE kind = "throw" -> hunterThrew([batch EXCEPT !.trace[i].hunter = "threw"])
            [] kind = "result" ->
                 IF Len(emails) > 0
                 THEN discoverySettled([batch EXCEPT !.trace[i].hunter = "found"],
                        [source |-> "hunter",
                         contacts |-> normalizeContacts(emails, "hunter"),
                         companyId |-> companyId])
                 ELSE discoverySettled([batch EXCEPT !.trace[i].hunter = "empty"],
                        noContactsResult(companyId))
  /\ UNCHANGED <<gridVars, dedupe, fuzzy, enrich, qualify, helper, stream, validation, notionExport>>

\* the delayMs timer between two subjects fires
batchDelayElapsed ==
  /\ batch.pc = "delay"
  /\ batch' = batchLoop([batch EXCEPT !.i = nextSubject(@)])
  /\ UNCHANGED <<gridVars, dedupe, fuzzy, enrich, qualify, helper, stream, validation, notionExport>>

WaterfallNext ==
  \/ \E subjects \in SeqsUpTo(Subjects, MaxBatch), key \in BOOLEAN, delayMs \in {0, 1000} :
       discoverContactsBatch(subjects, key, delayMs)
  \/ \E kind \in {"throw", "null"} : scrapeSettled(kind, <<>>)
  \/ \E contacts \in ContactLists : scrapeSettled("list", contacts)
  \/ hunterSettled("throw", <<>>)
  \/ \E emails \in ContactLists : hunterSettled("result", emails)
  \/ batchDelayElapsed

WaterfallSpec == Init /\ [][WaterfallNext]_vars

\* ---------------------------------------------- waterfall properties
BatchRunning == batch.pc # "idle"

SubjectIndexes == IF BatchRunning THEN DOMAIN batch.trace ELSE {}

\* discoverContacts has returned for subject i
Settled(i) == batch.trace[i].result.source # "none"

\* position of the call <<source, i>> in the order of source calls (0: not made)
CallPos(source, i) ==
  LET at == {k \in 1..Len(batch.calls) : batch.calls[k] = <<source, i>>}
  IN IF at = {} THEN 0 ELSE CHOOSE k \in at : TRUE

\* C11: Hunter is invoked only after the scraper was tried and returned no
\* contacts or failed, and only with an API key; when the scraper returns a
\* contact Hunter is not called and the result is tagged web_scrape.
C11_HunterOnlyAsFallback ==
  \A i \in SubjectIndexes :
    /\ batch.trace[i].hunter # "notcalled" =>
         /\ batch.trace[i].scrape \in {"threw", "empty"}
         /\ batch.hunterApiKey
         /\ CallPos("web_scrape", i) > 0
         /\ CallPos("web_scrape", i) < CallPos("hunter", i)
    /\ batch.trace[i].scrape = "found" =>
         /\ batch.trace[i].hunter = "notcalled"
         /\ Settled(i) /\ batch.trace[i].result.source = "web_scrape"
         /\ batch.trace[i].result.contacts # <<>>

\* the scraper found contacts while a Hunter key was at hand
C11_Witness ==
  \E i \in SubjectIndexes :
    /\ batch.hunterApiKey /\ batch.trace[i].scrape = "found"
    /\ batch.trace[i].result.source = "web_scrape"

\* C12: when the scraper and Hunter each return no contacts or throw,
\* discoverContacts raises nothing and returns source null with no contacts.
C12_NothingFoundIsNoError ==
  /\ BatchRunning => ~batch.rejected
  /\ \A i \in SubjectIndexes :
       /\ batch.trace[i].scrape \in {"threw", "empty"}
       /\ batch.trace[i].hunter \in {"threw", "empty"}
       => /\ Settled(i)
          /\ batch.trace[i].result.source = "null"
          /\ batch.trace[i].result.contacts = <<>>

\* both sources threw for a subject
C12_Witness ==
  \E i \in SubjectIndexes :
    /\ batch.trace[i].scrape = "threw" /\ batch.trace[i].hunter = "threw"
    /\ batch.trace[i].result.source = "null"

\* C13: when the scraper throws and a Hunter key is present, Hunter is
\* still invoked, its contacts are returned tagged hunter, and the
\* exception does not reach the caller.
C13_ScraperFailureFallsThrough ==
  \A i \in SubjectIndexes :
    batch.trace[i].scrape = "threw" =>
      /\ ~batch.rejected
      /\ batch.hunterApiKey =>
           /\ batch.trace[i].hunter # "notcalled"
           /\ batch.trace[i].hunter = "found" =>
                /\ Settled(i)
                /\ batch.trace[i].result.source = "hunter"
                /\ batch.trace[i].result.contacts # <<>>
                /\ \A k \in 1..Len(batch.trace[i].result.contacts) :
                     batch.trace[i].result.contacts[k].source = "hunter"

\* the scraper threw and Hunter then found contacts
C13_Witness ==
  \E i \in SubjectIndexes :
    /\ batch.trace[i].scrape = "threw" /\ batch.trace[i].hunter = "found"
    /\ batch.trace[i].result.source = "hunter"

\* a subject whose processing failed: it has no domain, or every source
\* that was tried for it threw
SubjectFailed(i) ==
  \/ batch.companies[i + 1].domain = <<>>
  \/ /\ batch.trace[i].scrape = "threw"
     /\ batch.trace[i].hunter \in {"threw", "notcalled"}
     /\ batch.pc # "scrape" \/ batch.i # i

\* C14: a subject that fails is recorded with an empty result, the batch
\* goes on, and the returned mapping has an entry for every subject.
C14_BatchSurvivesSubjectFailure ==
  /\ BatchRunning => ~batch.rejected
  /\ \A i \in SubjectIndexes :
       SubjectFailed(i) /\ i \in Range(batch.started) /\ i \notin batch.inFlight =>
         /\ batch.trace[i].result.source = "null"
         /\ batch.trace[i].result.contacts = <<>>
  /\ batch.pc = "done" =>
       /\ batch.started = [k \in 1..Len(batch.companies) |-> k - 1]
       /\ \A i \in SubjectIndexes :
            /\ Settled(i)
            /\ mapHas(batch.results, batch.companies[i + 1].id)
       /\ \A k \in 1..Len(batch.results) :
            \E i \in SubjectIndexes : batch.results[k][1] = batch.companies[i + 1].id

\* the first subject failed, the second was processed and found contacts
C14_Witness ==
  /\ batch.pc = "done" /\ Len(batch.companies) = 2
  /\ SubjectFailed(0)
  /\ Settled(1) /\ batch.trace[1].result.source # "null"
  /\ Len(batch.results) = 2

\* C15: subjects are discovered in input order, one at a time: a discovery
\* starts only once every earlier one has settled.
C15_BatchIsSequential ==
  BatchRunning =>
    /\ Cardinality(batch.inFlight) <= 1
    /\ batch.started = [k \in 1..Len(batch.started) |-> k - 1]
    /\ batch.inFlight \subseteq {Len(batch.started) - 1}
    /\ \A j \in 0..(Len(batch.started) - 2) : Settled(j)

\* the second subject is in flight after the first has settled
C15_Witness ==
  /\ batch.pc \in {"scrape", "hunter"} /\ batch.inFlight = {1}
  /\ batch.started = <<0, 1>> /\ Settled(0)

\* ------------------------------------------- strings (src/notion.js)
\* A string is a sequence of one-character strings.
MaxStr == 6           \* length of the generated fuzzyMatch arguments

UpperCase == <<"A", "B", "C", "D", "E", "F", "G", "H", "I", "J", "K", "L", "M",
               "N", "O", "P", "Q", "R", "S", "T", "U", "V", "W", "X", "Y", "Z">>

LowerCase == <<"a", "b", "c", "d", "e", "f", "g", "h", "i", "j", "k", "l", "m",
               "n", "o", "p", "q", "r", "s", "t", "u", "v", "w", "x", "y", "z">>

Digits == {"0", "1", "2", "3", "4", "5", "6", "7", "8", "9"}

\* String.prototype.toLowerCase, character by character
lowerChar(c) ==
  IF \E k \in 1..26 : UpperCase[k] = c
  THEN LowerCase[CHOOSE k \in 1..26 : UpperCase[k] = c]
  ELSE c

toLowerCase(str) == [k \in 1..Len(str) |-> lowerChar(str[k])]

\* str.replace(/[^...]/g, ''): the characters of str that are in keep
RECURSIVE keepChars(_, _)
keepChars(str, keep) ==
  IF str = <<>> THEN <<>>
  ELSE IF Head(str) \in keep THEN <<Head(str)>> \o keepChars(Tail(str), keep)
  ELSE keepChars(Tail(str), keep)

startsWith(str, prefix) ==
  Len(prefix) <= Len(str) /\ SubSeq(str, 1, Len(prefix)) = prefix

\* str.replace(/^prefix/, '')
stripPrefix(str, prefix) ==
  IF startsWith(str, prefix) THEN SubSeq(str, Len(prefix) + 1, Len(str)) ELSE str

\* str.includes(part)
includes(str, part) ==
  \E k \in 0..(Len(str) - Len(part)) : SubSeq(str, k + 1, k + Len(part)) = part

\* str.split(sep)[0]
firstSegment(str, sep) ==
  IF \E k \in 1..Len(str) : str[k] = sep
  THEN SubSeq(str, 1, (CHOOSE k \in 1..Len(str) :
                         str[k] = sep /\ \A j \in 1..(k - 1) : str[j] # sep) - 1)
  ELSE str

\* ------------------------------------------------ fuzzyMatch, levenshtein
\* A score is the exact quotient num / den; the comparisons cross-multiply.
score(num, den) == [num |-> num, den |-> den]

scoreEq(x, y) == x.num * y.den = y.num * x.den

scoreGeq(x, y) == x.num * y.den >= y.num * x.den

min3(x, y, z) ==
  IF x <= y /\ x <= z THEN x ELSE IF y <= z THEN y ELSE z

\* dp[i][j] from dp[i-1][j] (up), dp[i][j-1] (left), dp[i-1][j-1] (diag)
levenshteinCellSubstitutionFree(same, up, left, diag) ==
  IF same THEN diag ELSE min3(up + 1, left + 1, diag)

levenshteinCell(same, up, left, diag) ==
  IF same THEN diag ELSE 1 + min3(up, left, diag)

\* row i of dp, filled left to right; a row is indexed 1..n+1 for j = 0..n
RECURSIVE levenshteinRow(_, _, _, _, _)
levenshteinRow(s1, s2, i, prev, cur) ==
  IF Len(cur) = Len(s2) + 1 THEN cur
  ELSE LET j == Len(cur)
       IN levenshteinRow(s1, s2, i, prev,
            Append(cur, levenshteinCell(s1[i] = s2[j], prev[j + 1], cur[j], prev[j])))

RECURSIVE levenshteinRows(_, _, _, _)
levenshteinRows(s1, s2, i, prev) ==
  IF i > Len(s1) THEN prev
  ELSE levenshteinRows(s1, s2, i + 1, levenshteinRow(s1, s2, i, prev, <<i>>))

levenshtein(s1, s2) ==
  levenshteinRows(s1, s2, 1, [j \in 1..(Len(s2) + 1) |-> j - 1])[Len(s2) + 1]

NormalizeKeep == Range(LowerCase) \cup Digits

normalize(str) == trim(keepChars(toLowerCase(str), NormalizeKeep))

SubstringMinLen == 5

substringMatchFirstOnly(s1, s2) ==
  Len(s1) >= SubstringMinLen /\ (includes(s1, s2) \/ includes(s2, s1))

substringMatch(s1, s2) ==
  LET shorter == IF Len(s1) < Len(s2) THEN s1 ELSE s2
  IN Len(shorter) >= SubstringMinLen /\ (includes(s1, s2) \/ includes(s2, s1))

fuzzyMatchFromShorter(a, b) ==
  IF a = <<>> \/ b = <<>> THEN score(0, 1)
  ELSE LET s1 == normalize(a)
           s2 == normalize(b)
           shorter == IF Len(s1) < Len(s2) THEN s1 ELSE s2
           longer == IF Len(s1) > Len(s2) THEN s1 ELSE s2
       IN IF s1 = s2 THEN score(1, 1)
          ELSE IF substringMatch(s1, s2) THEN score(17, 20)
          ELSE IF Len(longer) = 0 THEN score(1, 1)
          ELSE score(Len(shorter) - levenshtein(s1, s2), Len(longer))

fuzzyMatch(a, b) ==
  IF a = <<>> \/ b = <<>> THEN score(0, 1)
  ELSE LET s1 == normalize(a)
           s2 == normalize(b)
           longer == IF Len(s1) > Len(s2) THEN s1 ELSE s2
       IN IF s1 = s2 THEN score(1, 1)
          ELSE IF substringMatch(s1, s2) THEN score(17, 20)
          ELSE IF Len(longer) = 0 THEN score(1, 1)
          ELSE score(Len(longer) - levenshtein(s1, s2), Len(longer))

\* arguments of fuzzyMatch: every string over two letters, one of them
\* upper case, and some business names with spaces, digits and punctuation
FuzzyAlphabet == {"a", "B"}

FuzzySamples ==
  { <<>>,
    <<" ">>,
    <<"-", " ">>,
    <<"A", "c", "m", "e", " ", "1">>,
    <<"a", "c", "m", "e", "1">>,
    <<"A", "C", "M", "E", "-", "1", "2">>,
    <<"a", "b", " ", "a", "b", "a", ",", " ", "B">> }

FuzzyInputs == SeqsUpTo(FuzzyAlphabet, MaxStr) \cup FuzzySamples

\* one call fuzzyMatch(a, b)
fuzzyMatchCall(a, b) ==
  /\ fuzzy.pc = "idle"
  /\ fuzzy' = [pc |-> "done", a |-> a, b |-> b, result |-> fuzzyMatch(a, b)]
  /\ UNCHANGED <<gridVars, batch, dedupe, enrich, qualify, helper, stream, validation, notionExport>>

\* the caller has taken the score
fuzzyMatchReturned ==
  /\ fuzzy.pc = "done"
  /\ fuzzy' = notCalled
  /\ UNCHANGED <<gridVars, batch, dedupe, enrich, qualify, helper, stream, validation, notionExport>>

FuzzyNext ==
  \/ \E a \in FuzzyInputs, b \in FuzzyInputs : fuzzyMatchCall(a, b)
  \/ fuzzyMatchReturned

FuzzySpec == Init /\ [][FuzzyNext]_vars

\* unit-cost edit distance by the textbook recurrence
\*   D(i, j) = min(D(i-1, j) + 1, D(i, j-1) + 1, D(i-1, j-1) + [s_i # t_j])
RECURSIVE EditRow(_, _, _, _, _)
EditRow(s, t, i, prev, cur) ==
  IF Len(cur) = Len(t) + 1 THEN cur
  ELSE LET j == Len(cur)
           sub == prev[j] + (IF s[i] = t[j] THEN 0 ELSE 1)
       IN EditRow(s, t, i, prev, Append(cur, min3(prev[j + 1] + 1, cur[j] + 1, sub)))

RECURSIVE EditRows(_, _, _, _)
EditRows(s, t, i, prev) ==
  IF i > Len(s) THEN prev ELSE EditRows(s, t, i + 1, EditRow(s, t, i, prev, <<i>>))

EditDistance(s, t) == EditRows(s, t, 1, [j \in 1..(Len(t) + 1) |-> j - 1])[Len(t) + 1]

\* the score the claim prescribes for normalised strings s1, s2
PrescribedScore(s1, s2) ==
  LET shorter == IF Len(s1) < Len(s2) THEN s1 ELSE s2
      longer == IF Len(s1) < Len(s2) THEN s2 ELSE s1
  IN IF s1 = s2 THEN score(1, 1)
     ELSE IF Len(shorter) >= 5 /\ includes(longer, shorter) THEN score(17, 20)
     ELSE score(Len(longer) - EditDistance(s1, s2), Len(longer))

\* C20: for non-empty a and b, fuzzyMatch(a, b) is 1 when the normalised
\* strings are equal, else 0.85 when the shorter has at least 5 characters
\* and is a substring of the longer, else (L - d) / L with L the longer
\* length and d the unit-cost edit distance of the normalised strings.
C20_FuzzyMatchScore ==
  fuzzy.pc = "done" /\ fuzzy.a # <<>> /\ fuzzy.b # <<>> =>
    /\ scoreEq(fuzzy.result, PrescribedScore(normalize(fuzzy.a), normalize(fuzzy.b)))
    /\ fuzzy.a = fuzzy.b => scoreEq(fuzzy.result, score(1, 1))

\* an edit-distance score for strings that normalisation changed
C20_Witness ==
  /\ fuzzy.pc = "done"
  /\ normalize(fuzzy.a) # fuzzy.a /\ Len(normalize(fuzzy.a)) = 6
  /\ Len(normalize(fuzzy.b)) = 5
  /\ scoreEq(fuzzy.result, score(4, 6))

\* --------------------------------------- directory index, checkDuplicate
MaxDirectory == 4     \* contacts fetched from the directory in one session

\* the literal prefixes of the two anchored patterns
SchemeHttp == <<"h", "t", "t", "p", ":", "/", "/">>

SchemeHttps == <<"h", "t", "t", "p", "s", ":", "/", "/">>

WwwPrefix == <<"w", "w", "w", ".">>

\* a missing (null, undefined) string is the empty sequence: the code tests
\* both with !x
extractDomain(url) ==
  IF url = <<>> THEN <<>>
  ELSE LET noScheme == IF startsWith(url, SchemeHttp) THEN stripPrefix(url, SchemeHttp)
                       ELSE stripPrefix(url, SchemeHttps)
           noWww == stripPrefix(noScheme, WwwPrefix)
       IN trim(toLowerCase(firstSegment(noWww, "/")))

\* email.split('@')[1]?.toLowerCase()
emailHost(email) ==
  IF \E k \in 1..Len(email) : email[k] = "@"
  THEN LET at == CHOOSE k \in 1..Len(email) :
                   email[k] = "@" /\ \A j \in 1..(k - 1) : email[j] # "@"
       IN toLowerCase(firstSegment(SubSeq(email, at + 1, Len(email)), "@"))
  ELSE <<>>

parseNotionContact(page) ==
  LET fromOrg == extractDomain(page.organizaceUrl)
  IN [pageId |-> page.id,
      fullName |-> page.person.fullName,
      firstName |-> page.person.firstName,
      lastName |-> page.person.lastName,
      email |-> page.email,
      organizaceUrl |-> page.organizaceUrl,
      domain |-> IF fromOrg = <<>> /\ page.email # <<>> THEN emailHost(page.email)
                 ELSE fromOrg]

\* the Map domain -> contacts, as a sequence of <<domain, contacts>>
RECURSIVE buildDomainIndexFrom(_, _)
buildDomainIndexFrom(contacts, index) ==
  IF contacts = <<>> THEN index
  ELSE LET contact == Head(contacts)
           existing == IF mapHas(index, contact.domain)
                       THEN mapGet(index, contact.domain) ELSE <<>>
       IN buildDomainIndexFrom(Tail(contacts),
            IF contact.domain # <<>>
            THEN mapSet(index, contact.domain, Append(existing, contact))
            ELSE index)

buildDomainIndex(contacts) == buildDomainIndexFrom(contacts, <<>>)

FUZZY_THRESHOLD == score(17, 20)

MinTokenLen == 3

TopMatches == 3

noMatchResult == [isDupe |-> FALSE, matchType |-> "null", matches |-> <<>>,
                  confidence |-> score(0, 1)]

domainMatchOf(c) ==
  [pageId |-> c.pageId, name |-> c.fullName, email |-> c.email,
   organizaceUrl |-> c.organizaceUrl]

domainVerdictFirstOnly(domainMatches) ==
  [isDupe |-> TRUE, matchType |-> "domain",
   matches |-> <<domainMatchOf(domainMatches[1])>>,
   confidence |-> score(19, 20)]

domainVerdict(domainMatches) ==
  [isDupe |-> TRUE, matchType |-> "domain",
   matches |-> [k \in 1..Len(domainMatches) |-> domainMatchOf(domainMatches[k])],
   confidence |-> score(19, 20)]

orgNameFromFullName(contact) == contact.fullName

\* extractDomain(contact.organizaceUrl)?.split('.')[0]
orgNameOf(contact) == firstSegment(extractDomain(contact.organizaceUrl), ".")

tooShortNever(orgName) == orgName = <<>>

tooShort(orgName) == orgName = <<>> \/ Len(orgName) < MinTokenLen

\* the loop over allContacts: the candidates kept, and the contacts scored
RECURSIVE fuzzyCandidates(_, _, _)
fuzzyCandidates(name, allContacts, acc) ==
  IF allContacts = <<>> THEN acc
  ELSE LET contact == Head(allContacts)
           orgName == orgNameOf(contact)
           orgScore == fuzzyMatch(name, orgName)
       IN fuzzyCandidates(name, Tail(allContacts),
            IF contact.organizaceUrl = <<>> \/ tooShort(orgName) THEN acc
            ELSE [fuzzyMatches |->
                    IF scoreGeq(orgScore, FUZZY_THRESHOLD)
                    THEN Append(acc.fuzzyMatches, [contact |-> contact, score |-> orgScore])
                    ELSE acc.fuzzyMatches,
                  scored |-> Append(acc.scored, contact.pageId)])

\* Array.prototype.sort((a, b) => b.score - a.score): stable, descending
RECURSIVE insertByScore(_, _)
insertByScore(sorted, m) ==
  IF sorted = <<>> THEN <<m>>
  ELSE IF scoreGeq(Head(sorted).score, m.score)
       THEN <<Head(sorted)>> \o insertByScore(Tail(sorted), m)
       ELSE <<m>> \o sorted

RECURSIVE sortByScore(_, _)
sortByScore(fuzzyMatches, sorted) ==
  IF fuzzyMatches = <<>> THEN sorted
  ELSE sortByScore(Tail(fuzzyMatches), insertByScore(sorted, Head(fuzzyMatches)))

takeTopNoCap(sorted) == sorted

\* slice(0, 3)
takeTop(sorted) == SubSeq(sorted, 1, IF Len(sorted) < TopMatches THEN Len(sorted) ELSE TopMatches)

fuzzyMatchOf(m) ==
  [pageId |-> m.contact.pageId, name |-> m.contact.fullName, email |-> m.contact.email,
   organizaceUrl |-> m.contact.organizaceUrl, score |-> m.score]

reverse(q) == [k \in 1..Len(q) |-> q[Len(q) + 1 - k]]

argumentsSortedInPlace(domainIndex, allContacts) ==
  [domainIndex |-> domainIndex, allContacts |-> reverse(allContacts)]

\* the Map and the array as the call leaves them: it assigns to neither,
\* map() and slice() copy, and sort() works on the local fuzzyMatches
argumentsAfter(domainIndex, allContacts) ==
  [domainIndex |-> domainIndex, allContacts |-> allContacts]

\* returns the verdict and, for the properties, the contacts it scored
checkDuplicate(lead, domainIndex, allContacts) ==
  LET leadDomain == extractDomain(lead.website)
  IN IF leadDomain # <<>> /\ mapHas(domainIndex, leadDomain)
     THEN [result |-> domainVerdict(mapGet(domainIndex, leadDomain)), scored |-> <<>>]
     ELSE IF lead.name = <<>> THEN [result |-> noMatchResult, scored |-> <<>>]
     ELSE LET found == fuzzyCandidates(lead.name, allContacts,
                                       [fuzzyMatches |-> <<>>, scored |-> <<>>])
              sorted == sortByScore(found.fuzzyMatches, <<>>)
              top == takeTop(sorted)
          IN [result |->
                IF Len(found.fuzzyMatches) > 0
                THEN [isDupe |-> TRUE, matchType |-> "fuzzy_name",
                      matches |-> [k \in 1..Len(top) |-> fuzzyMatchOf(top[k])],
                      confidence |-> sorted[1].score]
                ELSE noMatchResult,
              scored |-> found.scored]

\* what the directory holds for one page, before its id is known
DirectoryPages ==
  {
    [organizaceUrl |-> <<"h", "t", "t", "p", "s", ":", "/", "/", "a", "c", "m", "e", "s", "o", "n", ".", "c", "z", "/", "t", "e", "a", "m">>,
     email |-> <<>>,
     person |-> [fullName |-> <<"J", "a", "n", " ", "N", "o">>, firstName |-> <<"J", "a", "n">>, lastName |-> <<"N", "o">>]],
    [organizaceUrl |-> <<"w", "w", "w", ".", "A", "c", "m", "e", "s", "a", "n", ".", "c", "z">>,
     email |-> <<>>,
     person |-> [fullName |-> <<"A", "c", "m", "e", "s", "o", "n">>, firstName |-> <<"A", "c", "m", "e", "s", "o", "n">>, lastName |-> <<>>]],
    [organizaceUrl |-> <<"h", "t", "t", "p", ":", "/", "/", "a", "c", "m", "e", "s", ".", "c", "z">>,
     email |-> <<"x", "@", "a", "c", "m", "e", "s", "o", "n", ".", "c", "z">>,
     person |-> [fullName |-> <<"J", "a", "n", " ", "N", "o">>, firstName |-> <<"J", "a", "n">>, lastName |-> <<"N", "o">>]],
    [organizaceUrl |-> <<"a", "c", "m", "e", ".", "c", "z">>,
     email |-> <<>>,
     person |-> [fullName |-> <<"J", "a", "n", " ", "N", "o">>, firstName |-> <<"J", "a", "n">>, lastName |-> <<"N", "o">>]],
    [organizaceUrl |-> <<"h", "t", "t", "p", "s", ":", "/", "/", "w", "w", "w", ".", "a", "b", ".", "c", "z", "/">>,
     email |-> <<>>,
     person |-> [fullName |-> <<"A", "c", "m", "e", "s", "o", "n">>, firstName |-> <<"A", "c", "m", "e", "s", "o", "n">>, lastName |-> <<>>]],
    [organizaceUrl |-> <<>>,
     email |-> <<"X", "@", "A", "c", "m", "e", "s", "o", "n", ".", "C", "Z">>,
     person |-> [fullName |-> <<"A", "c", "m", "e", "s", "o", "n">>, firstName |-> <<"A", "c", "m", "e", "s", "o", "n">>, lastName |-> <<>>]] }

Persons ==
  { [fullName |-> <<"J", "a", "n", " ", "N", "o">>, firstName |-> <<"J", "a", "n">>, lastName |-> <<"N", "o">>],
    [fullName |-> <<"A", "c", "m", "e", "s", "o", "n">>, firstName |-> <<"A", "c", "m", "e", "s", "o", "n">>, lastName |-> <<>>] }

LeadNames == {<<>>, <<"A", "c", "m", "e", "s", "o", "n">>, <<"A", "c", "m", "e">>, <<"A", "b">>}

LeadWebsites == {<<>>, <<"h", "t", "t", "p", "s", ":", "/", "/", "w", "w", "w", ".", "A", "c", "m", "e", "s", "o", "n", ".", "c", "z", "/", "c", "o", "n", "t", "a", "c", "t">>, <<"o", "t", "h", "e", "r", ".", "c", "z">>}

Leads == [name : LeadNames, website : LeadWebsites]

\* the contacts of a session: page k of the fetch has id k
contactsOf(pages) ==
  [k \in 1..Len(pages) |->
     parseNotionContact([id |-> k, organizaceUrl |-> pages[k].organizaceUrl,
                         email |-> pages[k].email, person |-> pages[k].person])]

\* the same contacts under another personal name
renamed(contacts, person) ==
  [k \in 1..Len(contacts) |->
     [contacts[k] EXCEPT !.fullName = person.fullName, !.firstName = person.firstName,
                         !.lastName = person.lastName]]

\* a dedup session starts: the directory is fetched, parsed and indexed
buildDomainIndexCall(pages) ==
  /\ dedupe.pc = "idle"
  /\ LET contacts == contactsOf(pages)
     IN dedupe' = [pc |-> "indexed", contacts |-> contacts,
                   index |-> buildDomainIndex(contacts),
                   fetched |-> contacts,   \* history: the contacts as parsed
                   served |-> FALSE]       \* history: a verdict was returned
  /\ UNCHANGED <<gridVars, batch, fuzzy, enrich, qualify, helper, stream, validation, notionExport>>

\* one lead is checked; the same lead is also checked against the session's
\* contacts under another personal name
checkDuplicateCall(lead, person) ==
  /\ dedupe.pc = "indexed"
  /\ LET other == renamed(dedupe.contacts, person)
         call == checkDuplicate(lead, dedupe.index, dedupe.contacts)
         otherCall == checkDuplicate(lead, buildDomainIndex(other), other)
         left == argumentsAfter(dedupe.index, dedupe.contacts)
     IN dedupe' = [pc |-> "checked", contacts |-> left.allContacts,
                   index |-> left.domainIndex,
                   fetched |-> dedupe.fetched, served |-> dedupe.served,
                   lead |-> lead, result |-> call.result, scored |-> call.scored,
                   other |-> other, otherResult |-> otherCall.result]
  /\ UNCHANGED <<gridVars, batch, fuzzy, enrich, qualify, helper, stream, validation, notionExport>>

\* the verdict is consumed; the session goes on with the next lead
checkDuplicateReturned ==
  /\ dedupe.pc = "checked"
  /\ dedupe' = [pc |-> "indexed", contacts |-> dedupe.contacts, index |-> dedupe.index,
                fetched |-> dedupe.fetched, served |-> TRUE]
  /\ UNCHANGED <<gridVars, batch, fuzzy, enrich, qualify, helper, stream, validation, notionExport>>

DedupeNext ==
  \/ \E pages \in SeqsUpTo(DirectoryPages, MaxDirectory) : buildDomainIndexCall(pages)
  \/ \E lead \in Leads, person \in Persons : checkDuplicateCall(lead, person)
  \/ checkDuplicateReturned

DedupeSpec == Init /\ [][DedupeNext]_vars

\* ------------------------------------------------ dedupe properties
Checked == dedupe.pc = "checked"

ContactIds == IF dedupe.pc = "idle" THEN {} ELSE 1..Len(dedupe.contacts)

\* the contacts indexed under the lead's derived domain
DomainHits ==
  {k \in ContactIds : /\ extractDomain(dedupe.lead.website) # <<>>
                      /\ dedupe.contacts[k].domain = extractDomain(dedupe.lead.website)}

MatchIds(result) == {result.matches[k].pageId : k \in 1..Len(result.matches)}

\* the organisation token of contact k and its score against the lead's name
TokenOf(k) == firstSegment(extractDomain(dedupe.contacts[k].organizaceUrl), ".")

ScoreOf(k) == fuzzyMatch(dedupe.lead.name, TokenOf(k))

\* C16: a lead whose domain is a key of the index gets an exact-domain
\* verdict with confidence 0.95 whose matches are all contacts of that
\* domain, without scores, and no contact is fuzzy-scored.
C16_ExactDomainVerdict ==
  Checked /\ DomainHits # {} =>
    /\ dedupe.result.isDupe
    /\ dedupe.result.matchType = "domain"
    /\ dedupe.result.confidence = score(19, 20)
    /\ MatchIds(dedupe.result) = DomainHits
    /\ Len(dedupe.result.matches) = Cardinality(DomainHits)
    /\ \A k \in 1..Len(dedupe.result.matches) :
         LET m == dedupe.result.matches[k]
         IN /\ DOMAIN m = {"pageId", "name", "email", "organizaceUrl"}
            /\ m.name = dedupe.contacts[m.pageId].fullName
            /\ m.email = dedupe.contacts[m.pageId].email
            /\ m.organizaceUrl = dedupe.contacts[m.pageId].organizaceUrl
    /\ dedupe.scored = <<>>

\* two contacts share the lead's domain, and the lead's name would have
\* scored against a contact of the directory
C16_Witness ==
  /\ Checked /\ Cardinality(DomainHits) >= 2
  /\ dedupe.lead.name # <<>>
  /\ \E k \in ContactIds : Len(TokenOf(k)) >= MinTokenLen
                           /\ scoreGeq(ScoreOf(k), FUZZY_THRESHOLD)
  /\ dedupe.result.matchType = "domain"

\* the contacts the fuzzy step may score, and those reaching the threshold
Eligible == {k \in ContactIds : dedupe.contacts[k].organizaceUrl # <<>>
                                /\ Len(TokenOf(k)) >= MinTokenLen}

Qualified == {k \in Eligible : scoreGeq(ScoreOf(k), FUZZY_THRESHOLD)}

FuzzyStep == Checked /\ DomainHits = {} /\ dedupe.lead.name # <<>>

\* C17: without an exact-domain hit, for a lead with a name, the matches
\* are the highest-scoring candidates among those scoring >= 0.85, at most
\* 3, in non-increasing score order, and confidence is the highest score;
\* without such a candidate the verdict is not-duplicate with no matches.
C17_FuzzyVerdictIsTopThree ==
  FuzzyStep =>
    LET matches == dedupe.result.matches
    IN IF Qualified = {} THEN dedupe.result = noMatchResult
       ELSE /\ dedupe.result.isDupe
            /\ dedupe.result.matchType = "fuzzy_name"
            /\ Len(matches) = (IF Cardinality(Qualified) < 3 THEN Cardinality(Qualified) ELSE 3)
            /\ Cardinality(MatchIds(dedupe.result)) = Len(matches)
            /\ MatchIds(dedupe.result) \subseteq Qualified
            /\ \A k \in 1..Len(matches) : scoreEq(matches[k].score, ScoreOf(matches[k].pageId))
            /\ \A k \in 1..(Len(matches) - 1) : scoreGeq(matches[k].score, matches[k + 1].score)
            /\ \A q \in Qualified \ MatchIds(dedupe.result) :
                 scoreGeq(matches[Len(matches)].score, ScoreOf(q))
            /\ \A q \in Qualified : scoreGeq(dedupe.result.confidence, ScoreOf(q))
            /\ scoreEq(dedupe.result.confidence, matches[1].score)

\* four candidates reach the threshold, with different scores among the
\* three returned
C17_Witness ==
  /\ FuzzyStep /\ Cardinality(Qualified) = 4
  /\ Len(dedupe.result.matches) = 3
  /\ ~scoreEq(dedupe.result.matches[1].score, dedupe.result.matches[3].score)
  /\ \E q \in Qualified \ MatchIds(dedupe.result) :
       ~scoreEq(ScoreOf(q), dedupe.result.matches[1].score)

\* C18 as stated: a contact whose organisation token is shorter than 5
\* characters never appears in a fuzzy verdict.
C18_ShortTokenSkipped_Original ==
  Checked /\ dedupe.result.matchType = "fuzzy_name" =>
    \A id \in MatchIds(dedupe.result) : Len(TokenOf(id)) >= 5

\* C18, amended: a contact whose organisation token is shorter than 3
\* characters is skipped and never appears in a fuzzy verdict.
C18_ShortTokenSkipped ==
  Checked /\ dedupe.result.matchType # "domain" =>
    /\ \A id \in MatchIds(dedupe.result) : Len(TokenOf(id)) >= 3
    /\ \A k \in ContactIds : Len(TokenOf(k)) < 3 => k \notin Range(dedupe.scored)

\* the lead's name equals a two-character token of the directory, and the
\* fuzzy step went over the contacts
C18_Witness ==
  /\ FuzzyStep
  /\ \E k \in ContactIds : /\ Len(TokenOf(k)) = 2
                           /\ normalize(dedupe.lead.name) = TokenOf(k)
                           /\ k \notin MatchIds(dedupe.result)
  /\ dedupe.scored # <<>>

\* C19: for the same lead, contacts that differ only in personal names
\* give the same isDupe, matchType and confidence and select the same
\* contacts.
C19_PersonalNamesIgnored ==
  Checked =>
    /\ dedupe.otherResult.isDupe = dedupe.result.isDupe
    /\ dedupe.otherResult.matchType = dedupe.result.matchType
    /\ scoreEq(dedupe.otherResult.confidence, dedupe.result.confidence)
    /\ [k \in 1..Len(dedupe.otherResult.matches) |-> dedupe.otherResult.matches[k].pageId]
         = [k \in 1..Len(dedupe.result.matches) |-> dedupe.result.matches[k].pageId]

\* the renamed contacts carry the lead's own name as personal name, the
\* session's contacts do not all, and the fuzzy step returned a verdict
C19_Witness ==
  /\ FuzzyStep
  /\ dedupe.other # dedupe.contacts
  /\ \E k \in ContactIds : /\ dedupe.other[k].fullName = dedupe.lead.name
                           /\ dedupe.contacts[k].fullName # dedupe.lead.name
                           /\ k \notin MatchIds(dedupe.result)
  /\ dedupe.result.isDupe

\* ------------------------------------------------ fuzzyMatch symmetry
\* C21: fuzzyMatch(a, b) = fuzzyMatch(b, a) for all strings, the empty
\* string and strings that normalise to the empty string included.
C21_FuzzyMatchSymmetric ==
  fuzzy.pc = "done" => scoreEq(fuzzy.result, fuzzyMatch(fuzzy.b, fuzzy.a))

\* the first argument is the longer one and contains the second, which is
\* too short for the substring rule
C21_Witness ==
  /\ fuzzy.pc = "done"
  /\ Len(normalize(fuzzy.a)) >= SubstringMinLen
  /\ Len(normalize(fuzzy.b)) \in 1..(SubstringMinLen - 1)
  /\ includes(normalize(fuzzy.a), normalize(fuzzy.b))
  /\ fuzzy.result.num > 0

Emails == {"e1", "e2", "null"}

DiscoveredContacts == [email : Emails]

DiscoveredLists == SeqsUpTo(DiscoveredContacts, MaxContacts)

\* rows the company may already have from an earlier enrichment
PriorTables ==
  {<<>>, <<[email |-> "e0", is_primary |-> TRUE, email_valid |-> "null", source |-> "null"]>>}

\* the INSERT loop of saveContacts: email is TEXT NOT NULL, so a row without
\* e-mail makes the statement throw, after the rows before it were inserted
RECURSIVE insertContacts(_, _)
insertContacts(table, contacts) ==
  IF contacts = <<>> THEN [table |-> table, threw |-> FALSE]
  ELSE IF Head(contacts).email = "null" THEN [table |-> table, threw |-> TRUE]
  ELSE insertContacts(Append(table, [email |-> Head(contacts).email,
                                     is_primary |-> Head(contacts).isPrimary,
                                     email_valid |-> "null", source |-> "null"]),
                      Tail(contacts))

\* db.saveContacts(companyId, contacts) on the rows and the counter of the company
saveContacts(e, contacts) ==
  LET inserted == insertContacts(<<>>, contacts)
  IN IF inserted.threw
     THEN [e EXCEPT !.table = inserted.table, !.threw = TRUE]
     ELSE [e EXCEPT !.table = inserted.table, !.contacts_count = Len(contacts),
                    !.threw = FALSE]

\* getContactsByCompany(..).find(c => c.email === contact.email), then
\* updateContactValidation on the row found
updateContactValidation(e, email, valid, source) ==
  LET hits == {k \in 1..Len(e.table) : e.table[k].email = email}
      \* ORDER BY is_primary DESC: a primary row with that e-mail comes first
      first == IF \E k \in hits : e.table[k].is_primary
               THEN CHOOSE k \in hits : e.table[k].is_primary /\
                                        \A j \in hits : e.table[j].is_primary => k <= j
               ELSE CHOOSE k \in hits : \A j \in hits : k <= j
  IN IF hits = {} THEN e
     ELSE [e EXCEPT !.table[first].email_valid = valid, !.table[first].source = source]

\* the end of the handler: the stage is set and the response is sent
enrichFinished(e) == [e EXCEPT !.pc = "done", !.pipeline_stage = "enriched"]

RECURSIVE contactLoop(_)
\* processContact after its e-mail validation settled (or was not needed)
contactSaved(e, valid) ==
  LET contact == e.found[e.i + 1]
      saved == saveContacts(e, <<[email |-> contact.email, isPrimary |-> e.i = 0]>>)
  IN IF saved.threw
     \* runEnrichmentStep catches: the loop over the contacts is abandoned
     THEN enrichFinished([saved EXCEPT !.errors = @ \cup {"discoverContacts"}])
     ELSE contactLoop([updateContactValidation(saved, contact.email, valid, e.source)
                         EXCEPT !.i = @ + 1])

\* for (let i = 0; i < contacts.length; i++) await processContact(...)
contactLoop(e) ==
  IF e.i < Len(e.found)
  THEN IF e.found[e.i + 1].email # "null"
       THEN [e EXCEPT !.pc = "validateEmail"]
       ELSE contactSaved(e, FALSE)
  ELSE enrichFinished(e)

otherThanEnrich == <<gridVars, batch, dedupe, fuzzy, qualify, helper, stream, validation, notionExport>>

\* POST /api/companies/:id/enrich-full for a company that exists and has a
\* valid website; prior: its contact rows at that moment
enrichFull(prior) ==
  /\ enrich.pc = "idle"
  /\ enrich' = [pc |-> "enrichCompany",
                table |-> prior, contacts_count |-> Len(prior),
                pipeline_stage |-> "raw", ico_validated |-> FALSE,
                found |-> <<>>, source |-> "null", i |-> 0,
                errors |-> {}, threw |-> FALSE,
                discovered |-> FALSE]  \* history: discoverContacts has returned
  /\ UNCHANGED otherThanEnrich

\* step 1, enrichCompany(domain): resolves with or without an ICO, or throws
enrichCompanySettled(kind) ==
  /\ enrich.pc = "enrichCompany"
  /\ enrich' = IF kind = "throw"
               THEN [enrich EXCEPT !.pc = "discoverContacts", !.errors = @ \cup {"enrichCompany"}]
               ELSE IF kind = "ico" THEN [enrich EXCEPT !.pc = "validateICO"]
               ELSE [enrich EXCEPT !.pc = "discoverContacts"]
  /\ UNCHANGED otherThanEnrich

\* step 2, validateICO(ico)
validateICOSettled(kind) ==
  /\ enrich.pc = "validateICO"
  /\ enrich' = IF kind = "throw"
               THEN [enrich EXCEPT !.pc = "discoverContacts", !.errors = @ \cup {"validateICO"}]
               ELSE [enrich EXCEPT !.pc = "discoverContacts", !.ico_validated = (kind = "valid")]
  /\ UNCHANGED otherThanEnrich

\* step 3, discoverContacts resolves (it never rejects) and the loop starts
discoverContactsSettled(source, contacts) ==
  /\ enrich.pc = "discoverContacts"
  /\ (contacts = <<>>) = (source = "null")
  /\ enrich' = contactLoop([enrich EXCEPT !.found = contacts, !.source = source,
                                          !.i = 0, !.discovered = TRUE])
  /\ UNCHANGED otherThanEnrich

\* validateEmail(contact.email) of processContact settles
validateEmailSettled(kind) ==
  /\ enrich.pc = "validateEmail"
  /\ enrich' = contactSaved(enrich, kind = "valid")
  /\ UNCHANGED otherThanEnrich

EnrichNext ==
  \/ \E prior \in PriorTables : enrichFull(prior)
  \/ \E kind \in {"ico", "noico", "throw"} : enrichCompanySettled(kind)
  \/ \E kind \in {"valid", "invalid", "throw"} : validateICOSettled(kind)
  \/ \E source \in {"web_scrape", "hunter", "null"}, contacts \in DiscoveredLists :
       discoverContactsSettled(source, contacts)
  \/ \E kind \in {"valid", "invalid", "throw"} : validateEmailSettled(kind)

EnrichSpec == Init /\ [][EnrichNext]_vars

\* C23: after a full enrichment whose discovery returned N >= 1 contacts,
\* all N are stored for the company, its contact count is N, and the first
\* contact is the one flagged primary.
C23_AllContactsStored ==
  enrich.pc = "done" /\ enrich.discovered /\ Len(enrich.found) >= 1 =>
    /\ Len(enrich.table) = Len(enrich.found)
    /\ enrich.contacts_count = Len(enrich.found)
    /\ \A k \in 1..Len(enrich.found) :
         /\ enrich.table[k].email = enrich.found[k].email
         /\ enrich.table[k].is_primary = (k = 1)

\* ------------------------------- qualification routes (src/README.md)
otherThanQualify == <<gridVars, batch, dedupe, fuzzy, enrich, helper, stream, validation, notionExport>>

\* the companies a request names: rows of the companies table read as leads
QualifyCompanies ==
  { [name |-> <<"A", "c", "m", "e">>, website |-> <<>>],
    [name |-> <<"A", "c", "m", "e", "s", "o", "n">>,
     website |-> <<"h", "t", "t", "p", "s", ":", "/", "/", "w", "w", "w", ".",
                   "A", "c", "m", "e", "s", "o", "n", ".", "c", "z", "/",
                   "c", "o", "n", "t", "a", "c", "t">>],
    [name |-> <<"A", "c", "m", "e">>, website |-> <<"o", "t", "h", "e", "r", ".", "c", "z">>],
    [name |-> <<"A", "b">>, website |-> <<"o", "t", "h", "e", "r", ".", "c", "z">>] }

freshRow == [pipeline_stage |-> "raw", in_notion |-> FALSE]

foundInNotionDomainOnly(dupeCheck) == dupeCheck.isDupe /\ dupeCheck.matchType = "domain"

\* if (dupeCheck.isDupe)
foundInNotion(dupeCheck) == dupeCheck.isDupe

\* what the request has of the Notion directory: nothing when Notion is
\* not configured or could not be fetched
noDirectory == [available |-> FALSE]

directoryOf(pages) ==
  [available |-> TRUE, contacts |-> contactsOf(pages),
   domainIndex |-> buildDomainIndex(contactsOf(pages))]

\* one company of a qualify request
qualifyCompany(q, k, directory) ==
  LET verdict == checkDuplicate(q.companies[k], directory.domainIndex,
                                directory.contacts).result
  IN IF q.companies[k].website = <<>>
     THEN [q EXCEPT !.outcome[k] = "no_website"]
     ELSE IF directory.available /\ foundInNotion(verdict)
          THEN [q EXCEPT !.rows[k].in_notion = TRUE, !.outcome[k] = "in_notion",
                         !.matches[k] = verdict.matches, !.checks[k] = "dupe"]
          ELSE [q EXCEPT !.rows[k].pipeline_stage = "qualified",
                         !.outcome[k] = "qualified",
                         !.checks[k] = IF ~directory.available THEN "none"
                                       ELSE IF verdict.isDupe THEN "dupe" ELSE "unique"]

\* for (const company of companiesToQualify) { ... }
RECURSIVE qualifyLoop(_, _, _)
qualifyLoop(q, k, directory) ==
  IF k > Len(q.companies) THEN [q EXCEPT !.pc = "done"]
  ELSE qualifyLoop(qualifyCompany(q, k, directory), k + 1, directory)

qualifyRequest(route, requested, notionConfigured) ==
  [pc |-> "called", route |-> route, companies |-> requested,
   notionConfigured |-> notionConfigured,
   rows |-> [k \in 1..Len(requested) |-> freshRow],
   outcome |-> [k \in 1..Len(requested) |-> "none"],
   matches |-> [k \in 1..Len(requested) |-> <<>>],   \* matches: dupeCheck.matches
   checks |-> [k \in 1..Len(requested) |-> "none"],  \* history: the verdict read
   fetch |-> "notcalled"]                            \* history: getNotionContacts


\* POST /api/companies/:id/qualify
qualifyOne(company, notionConfigured) ==
  /\ qualify.pc = "idle"
  /\ LET q == qualifyRequest("one", <<company>>, notionConfigured)
     IN qualify' = IF company.website = <<>> THEN qualifyLoop(q, 1, noDirectory)
                   ELSE IF notionConfigured THEN [q EXCEPT !.pc = "notion"]
                   ELSE qualifyLoop(q, 1, noDirectory)
  /\ UNCHANGED otherThanQualify

\* POST /api/companies/qualify with the ids of the requested companies
qualifyMany(requested, notionConfigured) ==
  /\ qualify.pc = "idle"
  /\ LET q == qualifyRequest("many", requested, notionConfigured)
     IN qualify' = IF requested = <<>> THEN [q EXCEPT !.pc = "done"]
                   ELSE IF notionConfigured THEN [q EXCEPT !.pc = "notion"]
                   ELSE qualifyLoop(q, 1, noDirectory)
  /\ UNCHANGED otherThanQualify

\* getNotionContacts() settles: with the parsed directory, or it throws
getNotionContactsSettled(kind, pages) ==
  /\ qualify.pc = "notion"
  /\ qualify' = IF kind = "throw"
                THEN qualifyLoop([qualify EXCEPT !.fetch = "failed"], 1, noDirectory)
                ELSE qualifyLoop([qualify EXCEPT !.fetch = "ok"], 1, directoryOf(pages))
  /\ UNCHANGED otherThanQualify

QualifyNext ==
  \/ \E company \in QualifyCompanies, notionConfigured \in BOOLEAN :
       qualifyOne(company, notionConfigured)
  \/ \E requested \in SeqsUpTo(QualifyCompanies, MaxBatch), notionConfigured \in BOOLEAN :
       qualifyMany(requested, notionConfigured)
  \/ getNotionContactsSettled("throw", <<>>)
  \/ \E pages \in SeqsUpTo(DirectoryPages, MaxDirectory) : getNotionContactsSettled("ok", pages)

QualifySpec == Init /\ [][QualifyNext]_vars

Requested == IF qualify.pc = "idle" THEN {} ELSE 1..Len(qualify.companies)

otherThanHelper == <<gridVars, batch, dedupe, fuzzy, enrich, qualify,
                     stream, validation, notionExport>>

\* coordinates handed to generateGrid, in eighths of a degree; each is a
\* Number (at most Precision significant bits)
LatSamples == {-64, -30, 9, 12, 40}

LngSamples == {-26, 8, 13, 15, 28}

degrees(eighths) == eighths * 2^(UnitBits - 3)

\* the viewports geocodeLocation may return: north > south and east > west
GeoBounds ==
  {[south |-> degrees(s), north |-> degrees(n), west |-> degrees(w), east |-> degrees(e)] :
     <<s, n>> \in {p \in LatSamples \X LatSamples : p[1] < p[2]},
     <<w, e>> \in {p \in LngSamples \X LngSamples : p[1] < p[2]}}

GridNums == {GRID_SIZES[size] : size \in DOMAIN GRID_SIZES}

\* runSearch calls generateGrid(bounds, gridNum)
generateGridCall(bounds, gridSize) ==
  /\ helper.pc = "idle"
  /\ helper' = [pc |-> "done", bounds |-> bounds, gridSize |-> gridSize,
                cells |-> generateGrid(bounds, gridSize)]
  /\ UNCHANGED otherThanHelper

\* runSearch has taken the cells
generateGridReturned ==
  /\ helper.pc = "done"
  /\ helper' = notCalled
  /\ UNCHANGED otherThanHelper

GridNext ==
  \/ \E bounds \in GeoBounds, gridSize \in GridNums : generateGridCall(bounds, gridSize)
  \/ generateGridReturned

GridSpec == Init /\ [][GridNext]_vars

\* cell k (counted from 0) of the returned array
cellAt(k) == helper.cells[k + 1]

\* the interiors of two cells have no point in common
interiorsDisjoint(c, d) ==
  \/ c.north <= d.south \/ d.north <= c.south
  \/ c.east <= d.west \/ d.east <= c.west

\* n*n cells in row-major order, every cell sharing its east edge with the
\* next cell of its row and its north edge with the cell above it, the
\* first row and column starting on the bound's south and west edges
GridTiles ==
  LET n == helper.gridSize
      b == helper.bounds
  IN /\ Len(helper.cells) = n * n
     /\ \A k \in 0..(n * n - 1) :
          LET row == k \div n
              col == k % n
              c == cellAt(k)
          IN /\ c.south <= c.north /\ c.west <= c.east
             /\ row = 0 => c.south = b.south
             /\ col = 0 => c.west = b.west
             /\ col < n - 1 => /\ c.east = cellAt(k + 1).west
                               /\ c.south = cellAt(k + 1).south
                               /\ c.north = cellAt(k + 1).north
             /\ row < n - 1 => /\ c.north = cellAt(k + n).south
                               /\ c.west = cellAt(k + n).west
                               /\ c.east = cellAt(k + n).east
     /\ \A k \in 0..(n * n - 1), l \in 0..(n * n - 1) :
          k # l => interiorsDisjoint(cellAt(k), cellAt(l))

\* x is y up to the rounding of the four operations that produced it: at
\* most 8 units in the last place of the larger edge of the interval
roundedTo(x, y, lo, hi) == abs(x - y) * 2^Precision <= 8 * max(abs(lo), abs(hi))

\* C25 as stated: for n in {2, 3, 5} generateGrid returns n*n cells in
\* row-major order that tile the bound, the outermost north and east edges
\* being exactly the bound's north and east edges.
C25_GridTilesBound_Original ==
  helper.pc = "done" =>
    /\ GridTiles
    /\ \A k \in 0..(helper.gridSize * helper.gridSize - 1) :
         /\ k \div helper.gridSize = helper.gridSize - 1 => cellAt(k).north = helper.bounds.north
         /\ k % helper.gridSize = helper.gridSize - 1 => cellAt(k).east = helper.bounds.east

\* C25: for n in {2, 3, 5} generateGrid returns n*n cells in row-major
\* order that tile the bound: neighbours share their common edge, no two
\* interiors overlap, the outermost south and west edges are the bound's,
\* and the outermost north and east edges are the bound's up to
\* floating-point rounding.
C25_GridTilesBound ==
  helper.pc = "done" =>
    /\ GridTiles
    /\ \A k \in 0..(helper.gridSize * helper.gridSize - 1) :
         /\ k \div helper.gridSize = helper.gridSize - 1 =>
              roundedTo(cellAt(k).north, helper.bounds.north, helper.bounds.south, helper.bounds.north)
         /\ k % helper.gridSize = helper.gridSize - 1 =>
              roundedTo(cellAt(k).east, helper.bounds.east, helper.bounds.west, helper.bounds.east)

\* a 5 x 5 grid whose last row ends off the bound's north edge
C25_Witness ==
  /\ helper.pc = "done" /\ helper.gridSize = 5 /\ Len(helper.cells) = 25
  /\ cellAt(24).north # helper.bounds.north
  /\ cellAt(24).east = helper.bounds.east
  /\ cellAt(0).north < cellAt(5).north

\* ------------------------------------------- runs of any requested size
\* POST /api/searches hands req.body.gridSize to runSearch unvalidated
\* (only a missing value becomes 'medium'): a supported name and one that
\* GRID_SIZES does not know
RequestedSizes == {"small", "huge"}

AnySizeNext ==
  \/ \E r \in Runs, gridSize \in RequestedSizes : runSearchAsync(r, gridSize)
  \/ Settle

AnySizeSpec == Init /\ [][AnySizeNext]_vars

\* C26: a run requested with a grid size outside small / medium / large is
\* rejected at once: it ends by throwing, with no geocoding call, no page
\* call and no cell behind it.
C26_UnsupportedGridRejected ==
  \A r \in Runs :
    run[r].pc # "idle" /\ run[r].gridSize \notin DOMAIN GRID_SIZES =>
      /\ run[r].pc = "done" /\ run[r].outcome = "threw"
      /\ run[r].geo = "none" /\ run[r].visited = <<>> /\ run[r].totalCells = 0

\* ---------------------------------------------- normalizeContacts, called
MaxNameLen == 5       \* characters of a scraped contact's name

NameAlphabet == {"a", "b", " "}

Names == SeqsUpTo(NameAlphabet, MaxNameLen)

\* the raw contacts a source may hand over: the name a string, null or
\* absent; first and last name present or absent; the confidence absent or
\* a number, 0 included
NormalizeInputs ==
  {[emptyContact EXCEPT !.name = name, !.firstName = firstName,
                        !.lastName = lastName, !.confidence = confidence] :
     name \in {undefined, null} \cup {String(s) : s \in Names},
     firstName \in {undefined, String(<<"c">>)},
     lastName \in {undefined, String(<<"d">>)},
     confidence \in {undefined, Number(0), Number(50), Number(95)}}

Sources == {"web_scrape", "hunter"}

normalizeContactsCall(contacts, source) ==
  /\ helper.pc = "idle"
  /\ helper' = [pc |-> "done", contacts |-> contacts, source |-> source,
                result |-> normalizeContacts(contacts, source)]
  /\ UNCHANGED otherThanHelper

\* discoverContacts has taken the normalised contacts
normalizeContactsReturned ==
  /\ helper.pc = "done"
  /\ helper' = notCalled
  /\ UNCHANGED otherThanHelper

NormalizeNext ==
  \/ \E contact \in NormalizeInputs, source \in Sources :
       normalizeContactsCall(<<contact>>, source)
  \/ normalizeContactsReturned

NormalizeSpec == Init /\ [][NormalizeNext]_vars

\* the source supplied a confidence with this contact
suppliedConfidence(contact) == contact.confidence.t = "number"

\* C27: normalisation never overwrites a confidence a source supplied: a
\* Hunter contact keeps the reported confidence, an explicit 0 included,
\* and a scraped contact gets the default 50 only when the scraper supplied
\* no confidence.
C27_ConfidenceNeverOverwritten ==
  helper.pc = "done" =>
    \A k \in 1..Len(helper.contacts) :
      /\ suppliedConfidence(helper.contacts[k]) =>
           helper.result[k].confidence = helper.contacts[k].confidence
      /\ helper.source = "hunter" /\ helper.contacts[k].confidence = Number(0) =>
           helper.result[k].confidence = Number(0)

\* the maximal runs of characters other than whitespace, left to right
TokenStarts(s) == {i \in 1..Len(s) : s[i] # " " /\ (i = 1 \/ s[i - 1] = " ")}

TokenAt(s, i) ==
  SubSeq(s, i, CHOOSE j \in i..Len(s) :
                 /\ \A m \in i..j : s[m] # " "
                 /\ j = Len(s) \/ s[j + 1] = " ")

RECURSIVE TokensFrom(_, _)
TokensFrom(s, starts) ==
  IF starts = {} THEN <<>>
  ELSE LET i == CHOOSE x \in starts : \A y \in starts : x <= y
       IN <<TokenAt(s, i)>> \o TokensFrom(s, starts \ {i})

Tokens(s) == TokensFrom(s, TokenStarts(s))

\* the tokens from the second on, one space between neighbours
RECURSIVE Spaced(_)
Spaced(tokens) ==
  IF Len(tokens) = 1 THEN tokens[1]
  ELSE tokens[1] \o <<" ">> \o Spaced(Tail(tokens))

\* C28: a scraped contact that carries only a full name gets the first
\* whitespace-separated token as firstName and the remaining tokens joined
\* by single spaces as lastName; a single-token name gets lastName null.
C28_NameSplit ==
  helper.pc = "done" /\ helper.source = "web_scrape" =>
    \A k \in 1..Len(helper.contacts) :
      LET raw == helper.contacts[k]
          tokens == IF raw.name.t = "string" THEN Tokens(raw.name.v) ELSE <<>>
      IN raw.firstName = undefined /\ raw.lastName = undefined /\ tokens # <<>> =>
           /\ helper.result[k].firstName = String(tokens[1])
           /\ helper.result[k].lastName =
                IF Len(tokens) = 1 THEN null ELSE String(Spaced(Tail(tokens)))

\* a three-token name with whitespace in front: two tokens make the last name
C28_Witness ==
  /\ helper.pc = "done" /\ helper.source = "web_scrape"
  /\ helper.contacts[1].firstName = undefined /\ helper.contacts[1].lastName = undefined
  /\ helper.contacts[1].name = String(<<"a", " ", "b", " ", "a">>)
  /\ helper.result[1].firstName = String(<<"a">>)
  /\ helper.result[1].lastName = String(<<"b", " ", "a">>)

\* ---------------------------------------------- getWaterfallStats, called
MaxResults == 4       \* entries of the results Map handed to getWaterfallStats

\* the results discoverContacts returns, as far as the statistics read them
ResultKinds ==
  {[source |-> "web_scrape", contacts |-> normalizeContacts(<<c>>, "web_scrape")] : c \in RawContacts}
  \cup {[source |-> "web_scrape", contacts |-> normalizeContacts(<<c, c>>, "web_scrape")] : c \in RawContacts}
  \cup {[source |-> "hunter", contacts |-> normalizeContacts(<<c>>, "hunter")] : c \in RawContacts}
  \cup {[source |-> "null", contacts |-> <<>>]}

\* results.values(), in insertion order
ResultLists == SeqsUpTo(ResultKinds, MaxResults)

\* every result with a source counted as a web-scrape result
bucketOfAnySource(result) ==
  IF result.source # "null" THEN "webScrape" ELSE "noContacts"

\* the counter the loop increments for a result
bucketOf(result) ==
  IF result.source = "web_scrape" THEN "webScrape"
  ELSE IF result.source = "hunter" THEN "hunter"
  ELSE "noContacts"

\* `(n / d * 100).toFixed(1) + '%'`: the percentage in tenths, rounded to
\* the nearest (no n / d below 16 entries lies halfway between two tenths)
toFixed1Percent(n, d) ==
  LET tenths == (2000 * n + d) \div (2 * d)
  IN [units |-> tenths \div 10, tenth |-> tenths % 10]

zeroPercent == [units |-> 0, tenth |-> -1]

\* the loop over results.values()
RECURSIVE statsLoop(_, _)
statsLoop(stats, values) ==
  IF values = <<>> THEN stats
  ELSE LET result == Head(values)
           counted == [stats EXCEPT ![bucketOf(result)] = @ + 1]
       IN statsLoop([counted EXCEPT !.totalContacts = @ + Len(result.contacts)], Tail(values))

getWaterfallStats(results) ==
  LET stats == statsLoop([total |-> Len(results), webScrape |-> 0, hunter |-> 0,
                          noContacts |-> 0, totalContacts |-> 0], results)
      rate == IF stats.total > 0 THEN toFixed1Percent(stats.webScrape, stats.total)
              ELSE zeroPercent
  IN [total |-> stats.total, webScrape |-> stats.webScrape, hunter |-> stats.hunter,
      noContacts |-> stats.noContacts, totalContacts |-> stats.totalContacts,
      webScrapeRate |-> rate, costSavings |-> rate]

getWaterfallStatsCall(results) ==
  /\ helper.pc = "idle"
  /\ helper' = [pc |-> "done", results |-> results, stats |-> getWaterfallStats(results)]
  /\ UNCHANGED otherThanHelper

\* the caller has taken the statistics
getWaterfallStatsReturned ==
  /\ helper.pc = "done"
  /\ helper' = notCalled
  /\ UNCHANGED otherThanHelper

StatsNext ==
  \/ \E results \in ResultLists : getWaterfallStatsCall(results)
  \/ getWaterfallStatsReturned

StatsSpec == Init /\ [][StatsNext]_vars

\* the results carrying one of the given source tags
WithSource(tags) == {k \in 1..Len(helper.results) : helper.results[k].source \in tags}

\* C29: getWaterfallStats counts every result in exactly one of the buckets
\* web-scrape, Hunter and no-contacts, by its source tag, so that
\* total = webScrape + hunter + noContacts = number of results.
C29_StatsPartition ==
  helper.pc = "done" =>
    /\ helper.stats.total = Len(helper.results)
    /\ helper.stats.webScrape = Cardinality(WithSource({"web_scrape"}))
    /\ helper.stats.hunter = Cardinality(WithSource({"hunter"}))
    /\ helper.stats.noContacts = Cardinality(WithSource({"null"}))
    /\ helper.stats.total = helper.stats.webScrape + helper.stats.hunter + helper.stats.noContacts

\* 2 web-scrape results, 1 Hunter result and 1 empty one: 4, 2, 1, 1
C29_Witness ==
  /\ helper.pc = "done" /\ Len(helper.results) = 4
  /\ Cardinality(WithSource({"web_scrape"})) = 2
  /\ Cardinality(WithSource({"hunter"})) = 1
  /\ helper.stats.total = 4 /\ helper.stats.webScrape = 2
  /\ helper.stats.hunter = 1 /\ helper.stats.noContacts = 1
  /\ helper.stats.totalContacts = 4
  /\ helper.stats.webScrapeRate = [units |-> 50, tenth |-> 0]

\* ------------------------------------------------------------- metering
\* run r awaits an external call (geocoding or a search page) and the step
\* is the settling of that call
ExternalCallSettles(r) == run[r].pc \in {"geocoding", "fetch"} /\ run'[r] # run[r]

\* C30: every external call a run issues is metered exactly once, whether
\* or not it succeeded: the step in which a geocoding or page call settles
\* raises the usage counter by exactly one, and no other step changes it.
C30_EveryCallMeteredOnce ==
  [][IF \E r \in Runs : ExternalCallSettles(r)
     THEN request_count' = request_count + 1
     ELSE request_count' = request_count]_vars

\* --------------------------------------------------- runs one at a time
\* no run has executed while another was executing: every run that has
\* started did so with all the others idle or over
Sequential == \A r \in Runs : run[r].pc = "idle" \/ run[r].startedAlone

\* C31: a run that is the only one metering pushes the usage counter past
\* the ceiling by at most pageCap - 1: while runs execute one at a time
\* (each entered with counter < ceiling, or rejected at entry), at every
\* point counter <= ceiling + 2.
C31_OvershootBounded ==
  Sequential => request_count <= API_LIMIT + (MaxPages - 1)

\* a lone run whose last cell was entered at ceiling - 1 and took all
\* three pages: the counter stands at ceiling + 2
C31_Witness ==
  /\ Sequential
  /\ \E r \in Runs : run[r].pc = "done" /\ run[r].budgetStop = "cell"
  /\ request_count = API_LIMIT + (MaxPages - 1)

\* ------------------------------------------- places seen again, renamed
\* the response pages of an API whose places change their display name
RevisedPages == SeqsUpTo(PlacesNamed({"n1", "n2"}), MaxPageLen)

RevisitNext ==
  \/ \E r \in Runs, gridSize \in GridChoices : runSearchAsync(r, gridSize)
  \/ \E r \in Runs, ok \in BOOLEAN : geocodeLocation(r, ok)
  \/ \E r \in Runs, kind \in {"reject", "notok"} : fetchSettled(r, kind, <<>>, FALSE)
  \/ \E r \in Runs, places \in RevisedPages, tok \in BOOLEAN : fetchSettled(r, "ok", places, tok)
  \/ \E r \in Runs : pageDelayElapsed(r)
  \/ \E r \in Runs : cellDelayElapsed(r)

RevisitSpec == Init /\ [][RevisitNext]_vars

\* C32: a place whose identifier is already persisted and that the search
\* API returns again, in the same run or a later one, has its stored lead
\* updated with the newly returned fields: when a cell's collection has
\* returned (runs executing one at a time), every place the cell was
\* answered with that was persisted before the cell is stored as it was
\* last returned.
C32_RepeatSightUpdates ==
  \A r \in Runs :
    Sequential /\ Returned(r) =>
      \A place \in run[r].sighted :
        (place.place_id \in run[r].seenAtCall /\ existingCompany(Db, place.place_id) # 0) =>
          companies[existingCompany(Db, place.place_id)] = place

\* ------------------------------------------------------- progress events
\* the 'progress' events among those handed to onProgress for the cell
\* run r is at
progressEvents(r) == SelectSeq(run[r].emitted, LAMBDA e : e.status = "progress")

\* C33: after each cell on which collection was invoked, a cell whose
\* collection failed included, exactly one progress event carrying the
\* cell's number, the total cell count and the running totals has been
\* emitted before the next cell starts (i.e. while the timer between cells
\* is awaited).
C33_OneProgressEventPerCell ==
  \A r \in Runs :
    run[r].pc = "cellDelay" =>
      progressEvents(r) = <<[status |-> "progress", cell |-> run[r].i + 1,
                             totalCells |-> run[r].totalCells,
                             totalResults |-> run[r].totalResults,
                             newResults |-> run[r].newResults]>>

\* what the run ends with: the event built from runSearch's return value
finalTally(r) == run[r].emitted[Len(run[r].emitted)]

\* C34: a run stopped early by the budget check before a cell reports as
\* completed the number of cells collection was invoked on, and that number
\* is part of the run's final tally.
C34_CellsCompletedInTally ==
  \A r \in Runs :
    run[r].pc = "done" /\ run[r].budgetStop = "cell" =>
      /\ \E k \in 1..Len(run[r].emitted) :
           /\ run[r].emitted[k].status = "limit_reached"
           /\ run[r].emitted[k].cells = Len(run[r].visited)
      /\ "cells" \in DOMAIN finalTally(r)
      /\ finalTally(r).cells = Len(run[r].visited)

\* ------------------------------------------------- the tally of a lone run
\* C35: in a run during which no other run executes, every lead persisted
\* is new, so totalNew = totalFound at every point and in the final tally;
\* totalNew < totalFound arises only when runs overlap.
C35_LoneRunAllNew ==
  Sequential => \A r \in Runs : run[r].newResults = run[r].totalResults

\* a lone run that has returned with a lead in its tally
C35_Witness ==
  /\ Sequential
  /\ \E r \in Runs : /\ run[r].pc = "done" /\ run[r].outcome = "returned"
                     /\ run[r].totalResults >= 1
                     /\ run[r].newResults = run[r].totalResults

\* ======================================================================
\* server: GET /api/searches/:id/progress (server-sent events) and the
\* runSearchAsync that feeds it, for one search
\* ======================================================================
otherThanStream == <<gridVars, batch, dedupe, fuzzy, enrich, qualify, helper,
                     validation, notionExport>>

\* clients that may open the progress stream of the search
MaxClients == 2

\* non-terminal events the run hands to onProgress
MaxEvents == 2

Clients == 1..MaxClients

\* `searchProgress.get(id)` of an id that has no entry
noCallback == 0

\* `res.write(...)` on the response of client c
sendEvent(st, c, data) == [st EXCEPT !.clients[c].received = Append(@, data)]

\* the progressCallback closure created for client c
progressCallback(st, c, progress) ==
  LET sent == sendEvent(st, c, progress)
  IN IF progress.status = "completed" \/ progress.status = "error"
     THEN [sent EXCEPT !.searchProgress = noCallback, !.clients[c].res = "ended"]
     ELSE sent

\* runSearchAsync's onProgress:
\* `const callback = searchProgress.get(String(searchId)); if (callback) callback(progress)`
callback(st, progress) ==
  IF st.searchProgress # noCallback
  THEN progressCallback(st, st.searchProgress, progress)
  ELSE st

\* POST /api/searches: db.createSearch, then runSearchAsync is started
postSearch ==
  /\ stream = notCalled
  /\ stream' = [pc |-> "running", status |-> "running", events |-> 0,
                searchProgress |-> noCallback,
                clients |-> [c \in Clients |-> [res |-> "none", received |-> <<>>]]]
  /\ UNCHANGED otherThanStream

\* runSearch hands onProgress a geocoding / searching / progress event
runReports ==
  /\ stream.pc = "running"
  /\ stream.events < MaxEvents
  /\ stream' = callback([stream EXCEPT !.events = @ + 1], [status |-> "progress"])
  /\ UNCHANGED otherThanStream

\* runSearch sets the search 'completed' and returns; runSearchAsync then
\* hands onProgress the 'completed' event (same turn of the event loop)
runSearchReturns ==
  /\ stream.pc = "running"
  /\ stream' = callback([stream EXCEPT !.pc = "over", !.status = "completed"],
                        [status |-> "completed"])
  /\ UNCHANGED otherThanStream

\* runSearch throws; runSearchAsync sets the search 'error' and hands
\* onProgress the 'error' event
runSearchThrows ==
  /\ stream.pc = "running"
  /\ stream' = callback([stream EXCEPT !.pc = "over", !.status = "error"],
                        [status |-> "error"])
  /\ UNCHANGED otherThanStream

\* the GET handler, for client c
getProgress(c) ==
  /\ stream.pc \in {"running", "over"}
  /\ stream.clients[c].res = "none"
  /\ stream' = IF stream.status = "completed"
               THEN [sendEvent(stream, c, [status |-> "completed"])
                       EXCEPT !.clients[c].res = "ended"]
               ELSE [stream EXCEPT !.searchProgress = c, !.clients[c].res = "open"]
  /\ UNCHANGED otherThanStream

\* `req.on('close', () => searchProgress.delete(searchId))`: client c,
\* whose stream is open, disconnects
requestClosed(c) ==
  /\ stream.pc \in {"running", "over"}
  /\ stream.clients[c].res = "open"
  /\ stream' = [stream EXCEPT !.searchProgress = noCallback, !.clients[c].res = "closed"]
  /\ UNCHANGED otherThanStream

StreamNext ==
  \/ postSearch
  \/ runReports
  \/ runSearchReturns
  \/ runSearchThrows
  \/ \E c \in Clients : getProgress(c)
  \/ \E c \in Clients : requestClosed(c)

StreamSpec == Init /\ [][StreamNext]_vars

\* the run is driven by calls and timers that settle: it ends
StreamFairSpec == StreamSpec /\ WF_vars(runSearchReturns \/ runSearchThrows)

\* the terminal events client c has received
terminalEvents(c) ==
  SelectSeq(stream.clients[c].received,
            LAMBDA e : e.status \in {"completed", "error"})

Subscribed(c) == stream # notCalled /\ stream.clients[c].res = "open"

Disconnected(c) == stream # notCalled /\ stream.clients[c].res = "closed"

\* the server has ended the response of client c
Ended(c) == stream # notCalled /\ stream.clients[c].res = "ended"

\* C36: every client that subscribes to the search's progress stream and
\* stays connected eventually receives exactly one terminal event
\* (completed or error), whenever it subscribes and whatever the other
\* clients do: an open stream leads to the client having disconnected or
\* the stream having been ended with exactly one terminal event received.
C36_TerminalEventDelivered ==
  \A c \in Clients :
    Subscribed(c) ~>
      \/ Disconnected(c)
      \/ Ended(c) /\ Len(terminalEvents(c)) = 1

\* ======================================================================
\* enrichment/validators.js: validateEmailsBatch(emails, concurrency)
\* ======================================================================
\* longest list of emails handed to validateEmailsBatch
MaxEmails == 3

\* the emails: two addresses and the empty string (falsy in JavaScript)
QueuedEmails == {"a@x", "b@x", ""}

EmailLists == SeqsUpTo(QueuedEmails, MaxEmails)

Concurrencies == 0..MaxEmails

\* the worker() invocations, in the order of the `for` loop that starts them
Workers == 1..MaxEmails

otherThanValidation == <<gridVars, batch, dedupe, fuzzy, enrich, qualify, helper,
                         stream, notionExport>>

\* `Math.min(concurrency, emails.length)`
workerCountAll(concurrency, length) == length

workerCount(concurrency, length) ==
  IF concurrency < length THEN concurrency ELSE length

\* `results.set(email, result)`; results is the set of its entries
resultsSet(results, email, result) ==
  {entry \in results : entry[1] # email} \cup {<<email, result>>}

\* worker w runs `while (queue.length > 0)` up to its next await or its end:
\* it shifts entries off the queue, and awaits validateEmail for the first
\* truthy one.  The queue holds the positions of the entries in `emails`,
\* so that two occurrences of one address stay apart; v.emails[k] is the
\* entry itself.
RECURSIVE worker(_, _)
worker(v, w) ==
  IF Len(v.queue) > 0
  THEN LET k == Head(v.queue)
           shifted == [v EXCEPT !.queue = Tail(@), !.takenBy[k] = Append(@, w)]
       IN IF v.emails[k] # ""
          THEN [shifted EXCEPT !.workers[w] = [pc |-> "awaiting", email |-> k],
                               !.validated[k] = @ + 1]
          ELSE worker(shifted, w)
  ELSE [v EXCEPT !.workers[w] = [pc |-> "done", email |-> 0]]

\* `for (let i = 0; i < Math.min(...); i++) workers.push(worker())`
RECURSIVE startWorkers(_, _, _)
startWorkers(v, i, n) ==
  IF i < n THEN startWorkers(worker(v, i + 1), i + 1, n) ELSE v

\* the call, up to `await Promise.all(workers)`
validateEmailsBatch(emails, concurrency) ==
  /\ validation = notCalled
  /\ validation' =
       startWorkers([pc |-> "awaiting", emails |-> emails, concurrency |-> concurrency,
                     queue |-> [k \in 1..Len(emails) |-> k],
                     results |-> {},
                     workers |-> [w \in Workers |-> [pc |-> "none", email |-> 0]],
                     takenBy |-> [k \in 1..Len(emails) |-> <<>>],
                     validated |-> [k \in 1..Len(emails) |-> 0]],
                    0, workerCount(concurrency, Len(emails)))
  /\ UNCHANGED otherThanValidation

\* the validateEmail that worker w awaits settles (it never rejects): the
\* result is stored and the worker goes on with its loop
workerValidationSettled(w, valid) ==
  /\ validation.pc = "awaiting"
  /\ validation.workers[w].pc = "awaiting"
  /\ validation' =
       worker([validation EXCEPT
                 !.results = resultsSet(@, validation.emails[validation.workers[w].email],
                                        [valid |-> valid])],
              w)
  /\ UNCHANGED otherThanValidation

\* Promise.all(workers) is fulfilled: `return results`
validateEmailsBatchReturned ==
  /\ validation.pc = "awaiting"
  /\ \A w \in Workers : validation.workers[w].pc \in {"none", "done"}
  /\ validation' = [validation EXCEPT !.pc = "done"]
  /\ UNCHANGED otherThanValidation

ValidationNext ==
  \/ \E emails \in EmailLists, concurrency \in Concurrencies :
       validateEmailsBatch(emails, concurrency)
  \/ \E w \in Workers, valid \in BOOLEAN : workerValidationSettled(w, valid)
  \/ validateEmailsBatchReturned

ValidationSpec == Init /\ [][ValidationNext]_vars

\* the validations in flight: the workers awaiting a validateEmail
InFlight == {w \in Workers : validation.workers[w].pc = "awaiting"}

\* some worker was started
WorkersRan == \E w \in Workers : validation.workers[w].pc # "none"

\* C37: validateEmailsBatch never has more than `concurrency` validations
\* in flight, and each queued occurrence is taken by exactly one worker: at
\* every point an occurrence has been taken at most once and validated at
\* most once, an occurrence still queued has not been taken, and when the
\* call returns after workers ran every occurrence has been taken exactly
\* once and every non-empty one validated exactly once.
C37_BoundedWorkersTakeOnce ==
  validation # notCalled =>
    /\ Cardinality(InFlight) <= validation.concurrency
    /\ \A k \in 1..Len(validation.emails) :
         /\ Len(validation.takenBy[k]) <= 1
         /\ validation.validated[k] <= Len(validation.takenBy[k])
         /\ (\E j \in 1..Len(validation.queue) : validation.queue[j] = k)
              <=> validation.takenBy[k] = <<>>
         /\ validation.pc = "done" /\ WorkersRan =>
              /\ Len(validation.takenBy[k]) = 1
              /\ validation.emails[k] # "" => validation.validated[k] = 1

\* three addresses validated by two workers: the call has returned, both
\* workers took entries and an address occurs twice
C37_Witness ==
  /\ validation # notCalled
  /\ validation.pc = "done"
  /\ validation.concurrency = 2
  /\ Len(validation.emails) = MaxEmails
  /\ validation.emails[1] = validation.emails[MaxEmails]
  /\ \A k \in 1..MaxEmails : validation.emails[k] # ""
  /\ {validation.takenBy[k][1] : k \in 1..MaxEmails} = {1, 2}

\* ======================================================================
\* server: POST /api/notion/export/batch
\* ======================================================================
\* longest companyIds array of a batch
MaxExport == 2

otherThanExport == <<gridVars, batch, dedupe, fuzzy, enrich, qualify, helper,
                     stream, validation>>

\* the companies table read by db.getCompanyById: row id = position.
\* Companies 1 and 2 have sites of one domain.
LocalCompanies ==
  << [name |-> <<"A", "c", "m", "e", "s", "o", "n">>,
      website |-> <<"h", "t", "t", "p", "s", ":", "/", "/", "w", "w", "w", ".", "A", "c", "m", "e", "s", "o", "n", ".", "c", "z", "/", "c", "o", "n", "t", "a", "c", "t">>],
     [name |-> <<"A", "b">>,
      website |-> <<"a", "c", "m", "e", "s", "o", "n", ".", "c", "z">>],
     [name |-> <<"A", "b">>,
      website |-> <<"o", "t", "h", "e", "r", ".", "c", "z">>] >>

\* ids a request may carry: those of the table and one that is not in it
RequestedIds == 1..(Len(LocalCompanies) + 1)

\* what the Notion database may hold when the batch reads it
ExportDirectories ==
  SeqsUpTo({p \in DirectoryPages :
              extractDomain(p.organizaceUrl) \in
                {<<"a", "c", "m", "e", "s", "o", "n", ".", "c", "z">>, <<"a", "b", ".", "c", "z">>}},
           1)

\* `if (!skipDupeCheck) { ... if (dupeCheck.isDupe) ... }`
isSkippedDupeNever(company, skipDupeCheck, domainIndex, contacts) == FALSE

isSkippedDupe(company, skipDupeCheck, domainIndex, contacts) ==
  /\ ~skipDupeCheck
  /\ checkDuplicate(company, domainIndex, contacts).result.isDupe

\* `for (const id of companyIds)` up to the next `await client.createPage`
\* or to `res.json(results)`; x holds the handler's locals
RECURSIVE exportLoop(_)
exportLoop(x) ==
  IF x.rest = <<>> THEN [x EXCEPT !.pc = "responded"]
  ELSE LET id == Head(x.rest)
           next == [x EXCEPT !.rest = Tail(@)]
       IN IF id \notin DOMAIN LocalCompanies
          THEN exportLoop([next EXCEPT !.errors = Append(@, id)])
          ELSE IF isSkippedDupe(LocalCompanies[id], x.skipDupeCheck, x.domainIndex, x.contacts)
          THEN exportLoop([next EXCEPT !.skippedDupes = @ + 1])
          ELSE [next EXCEPT !.pc = "creating", !.creating = id]

\* the request arrives and getNotionContacts(true) has read the directory
exportBatch(companyIds, skipDupeCheck, directory) ==
  /\ notionExport = notCalled
  /\ LET contacts == contactsOf(directory)
     IN notionExport' =
          exportLoop([pc |-> "started", rest |-> companyIds, skipDupeCheck |-> skipDupeCheck,
                      contacts |-> contacts, domainIndex |-> buildDomainIndex(contacts),
                      creating |-> 0, exported |-> 0, skippedDupes |-> 0,
                      errors |-> <<>>, pages |-> <<>>])
  /\ UNCHANGED otherThanExport

\* client.createPage settles: the page exists and the 300 ms sleep is
\* awaited, or the call threw and the loop goes on
createPageSettled(ok) ==
  /\ notionExport.pc = "creating"
  /\ notionExport' =
       IF ok
       THEN [notionExport EXCEPT !.pc = "sleeping", !.creating = 0,
                                 !.pages = Append(@, notionExport.creating),
                                 !.exported = @ + 1]
       ELSE exportLoop([notionExport EXCEPT !.creating = 0,
                                            !.errors = Append(@, notionExport.creating)])
  /\ UNCHANGED otherThanExport

\* `await sleep(300)` is over
exportSleepElapsed ==
  /\ notionExport.pc = "sleeping"
  /\ notionExport' = exportLoop(notionExport)
  /\ UNCHANGED otherThanExport

ExportNext ==
  \/ \E companyIds \in SeqsUpTo(RequestedIds, MaxExport), skipDupeCheck \in BOOLEAN,
        directory \in ExportDirectories :
       exportBatch(companyIds, skipDupeCheck, directory)
  \/ \E ok \in BOOLEAN : createPageSettled(ok)
  \/ exportSleepElapsed

ExportSpec == Init /\ [][ExportNext]_vars

\* the derived domain of the company page k of the batch was created for
exportedDomain(k) == extractDomain(LocalCompanies[notionExport.pages[k]].website)

DupeChecked == notionExport # notCalled /\ ~notionExport.skipDupeCheck

\* C38 as stated: with duplicate checking enabled, no two pages created by
\* one batch are for companies of the same derived domain.
C38_NoDuplicateInBatch_Original ==
  DupeChecked =>
    \A j, k \in 1..Len(notionExport.pages) :
      j < k /\ exportedDomain(j) # <<>> => exportedDomain(j) # exportedDomain(k)

\* C38: with duplicate checking enabled, a batch never creates a page for
\* a company that checkDuplicate finds in the Notion directory as read at
\* the start of the batch (the pages the batch itself creates are not
\* added to it).
C38_NoDuplicateInBatch ==
  DupeChecked =>
    \A k \in 1..Len(notionExport.pages) :
      ~checkDuplicate(LocalCompanies[notionExport.pages[k]],
                      notionExport.domainIndex, notionExport.contacts).result.isDupe

\* a checked batch of a company that the directory holds and one it does
\* not: the first was skipped as a duplicate, the second exported
C38_Witness ==
  /\ DupeChecked
  /\ notionExport.pc = "responded"
  /\ notionExport.skippedDupes = 1
  /\ notionExport.pages = <<3>>
  /\ notionExport.contacts # <<>>

\* ------------------------------------------------- the range of fuzzyMatch
\* C39: fuzzyMatch returns a value in the closed interval [0, 1] for every
\* pair of inputs, never a negative one: the returned quotient has a
\* positive denominator and 0 <= numerator <= denominator.
C39_ScoreInUnitInterval ==
  fuzzy.pc = "done" =>
    /\ fuzzy.result.den > 0
    /\ 0 <= fuzzy.result.num
    /\ fuzzy.result.num <= fuzzy.result.den

\* strings of different lengths without a letter in common: the edit
\* distance equals the longer length and the score is 0
C39_Witness ==
  /\ fuzzy.pc = "done"
  /\ Len(normalize(fuzzy.a)) = 1
  /\ Len(normalize(fuzzy.b)) = 3
  /\ levenshtein(normalize(fuzzy.a), normalize(fuzzy.b)) = 3
  /\ scoreEq(fuzzy.result, score(0, 1))

====
